---- MODULE Spec2Model ----
(***************************************************************************)
(* Model of the npm-dashboard data-collection pipeline: the Supabase       *)
(* time-series store (packages, package_downloads) and its writers: the    *)
(* backfill script, the daily updater, the add-package backfill and the    *)
(* dashboard update.  Every await of the source is one atomic step.        *)
(***************************************************************************)
EXTENDS Integers, Sequences, FiniteSets, Bags, TLC

\* ---------------------------------------------------------------- bounds
\* weeksBack of backfillPackage / backfillPackageData (52 in the source)
WeeksBack == 1
\* clock resolution: instants per calendar day
TicksPerDay == 2
\* last instant the clock reaches
MaxNow == 2
\* the days of one range answer of the provider (30 for last-month)
RangeDays == 2
\* total number of job starts in one behaviour
MaxStarts == 2
\* number of jobs running at the same time
MaxActive == 2
\* number of jobs terminated from outside in one behaviour
MaxKills == 1

\* null / no object
Null == [null |-> TRUE]
\* what JavaScript reads from a missing field; never a count
Undefined == 0 - 1
\* the error field of a store answer without error
NoError == "none"

\* -------------------------------------------------------------- date-fns
startOfDay(t) == t - (t % TicksPerDay)
subDays(t, n) == t - n * TicksPerDay
subWeeks(t, n) == subDays(t, 7 * n)
\* format(date, 'yyyy-MM-dd'): the calendar day of an instant
format(t) == t \div TicksPerDay

\* the clock starts at the last instant of a day
StartNow == TicksPerDay - 1

\* ------------------------------------------------------- package lists
PACKAGES_TO_BACKFILL == <<"react", "vue">>
topPackages == <<"react", "vue">>
PackageNames == {"react", "vue"}
\* names in the collation order of ORDER BY name
NameOrder == <<"react", "vue">>
OrderByName(S) == SelectSeq(NameOrder, LAMBDA n : n \in S)

\* ------------------------------------------------------ package names
\* name.length <= 214
MaxNameLength == 214
LongName == "a (215 times)"
\* what a user can submit: tracked names, and names that are not well formed
Names ==
  PackageNames \cup {"", "React", " react ", "@sc*pe/pkg", LongName}
\* the characters of a name
Spelling(name) ==
  CASE name = "react" -> <<"r", "e", "a", "c", "t">>
    [] name = "vue" -> <<"v", "u", "e">>
    [] name = "" -> <<>>
    [] name = "React" -> <<"R", "e", "a", "c", "t">>
    [] name = " react " -> <<" ", "r", "e", "a", "c", "t", " ">>
    [] name = "@sc*pe/pkg" ->
         <<"@", "s", "c", "*", "p", "e", "/", "p", "k", "g">>
    [] name = LongName -> [i \in 1..(MaxNameLength + 1) |-> "a"]
\* the name with the characters s
Spelled(s) == CHOOSE name \in Names : Spelling(name) = s
\* String.prototype.trim() on the characters of a name
RECURSIVE trimStart(_)
trimStart(s) ==
  IF s # <<>> /\ s[1] = " " THEN trimStart(Tail(s)) ELSE s
RECURSIVE trimEnd(_)
trimEnd(s) ==
  IF s # <<>> /\ s[Len(s)] = " " THEN trimEnd(SubSeq(s, 1, Len(s) - 1))
  ELSE s
trim(name) == Spelled(trimEnd(trimStart(Spelling(name))))
\* the character classes of the regular expressions
LowerAlnum ==
  {"a", "b", "c", "d", "e", "f", "g", "h", "i", "j", "k", "l", "m", "n", "o",
   "p", "q", "r", "s", "t", "u", "v", "w", "x", "y", "z", "0", "1", "2", "3",
   "4", "5", "6", "7", "8", "9"}
\* [a-z0-9-~] and [a-z0-9-._~]
NameFirst == LowerAlnum \cup {"-", "~"}
NameRest == LowerAlnum \cup {"-", ".", "_", "~"}
\* [a-z0-9-*~] and [a-z0-9-*._~]
StarFirst == LowerAlnum \cup {"-", "*", "~"}
StarRest == LowerAlnum \cup {"-", "*", ".", "_", "~"}
\* [a-z0-9-~][a-z0-9-._~]* over the whole of s
MatchesPlain(s) ==
  /\ Len(s) >= 1
  /\ s[1] \in NameFirst
  /\ \A i \in 2..Len(s) : s[i] \in NameRest
\* ^(@ first rest* /)? plain $
RegexTest(s, first, rest) ==
  \/ MatchesPlain(s)
  \/ /\ Len(s) >= 3
     /\ s[1] = "@"
     /\ s[2] \in first
     /\ \E k \in 3..Len(s) :
          /\ s[k] = "/"
          /\ \A i \in 3..(k - 1) : s[i] \in rest
          /\ MatchesPlain(SubSeq(s, k + 1, Len(s)))
\* packageService.ts (dashboard): isValidPackageName
isValidPackageName(name) == RegexTest(Spelling(name), NameFirst, NameRest)
\* NpmService.isValidPackageName
npmServiceIsValidPackageName(name) ==
  /\ RegexTest(Spelling(name), StarFirst, StarRest)
  /\ Len(Spelling(name)) <= MaxNameLength

\* --------------------------------------------------- the npm provider
\* first calendar day with downloads of a package (the provider's data)
Published(p) == IF p = "react" THEN 0 - 400 ELSE 0 - 2
Max(a, b) == IF a >= b THEN a ELSE b
\* downloads/point/{start}:{end}/{package}: the count over [start, end]
ProviderCount(p, start, end) ==
  LET lo == Max(start, Published(p))
  IN IF end < lo THEN 0 ELSE end - lo + 1
\* what one download request can answer: no answer (network error, timeout,
\* non-2xx), a body without a downloads field, or the count
Responses(p, start, end) ==
  {Null, [downloads |-> Undefined], [downloads |-> ProviderCount(p, start, end)]}

\* ------------------------------------------------- table package_downloads
Row(p, d, v) == [package_name |-> p, date |-> d, downloads |-> v]
Key(p, d) == [package |-> p, date |-> d]
RowsFor(rows, p, d) ==
  {r \in BagToSet(rows) : r.package_name = p /\ r.date = d}
RECURSIVE SumCopies(_, _)
SumCopies(S, B) ==
  IF S = {} THEN 0
  ELSE LET r == CHOOSE x \in S : TRUE
       IN CopiesIn(r, B) + SumCopies(S \ {r}, B)
NumRows(rows, p, d) == SumCopies(RowsFor(rows, p, d), rows)
Others(rows, p, d) ==
  LET S == BagToSet(rows) \ RowsFor(rows, p, d)
  IN [r \in S |-> rows[r]]

\* mutant: the table without its UNIQUE(package_name, date) constraint
InsertNoUnique(rows, p, d, v) ==
  IF v = Undefined THEN [rows |-> rows, error |-> "not_null"]
  ELSE [rows |-> rows (+) SetToBag({Row(p, d, v)}), error |-> NoError]

\* .insert(row): rejected by NOT NULL and by UNIQUE(package_name, date)
Insert(rows, p, d, v) ==
  IF v = Undefined THEN [rows |-> rows, error |-> "not_null"]
  ELSE IF NumRows(rows, p, d) > 0 THEN [rows |-> rows, error |-> "unique"]
  ELSE [rows |-> rows (+) SetToBag({Row(p, d, v)}), error |-> NoError]

\* mutant: upsert without onConflict, a plain insert
UpsertAsInsert(rows, p, d, v) == Insert(rows, p, d, v)

\* mutant: upsert that adds a row where one is stored already
UpsertAppend(rows, p, d, v) ==
  IF v = Undefined THEN [rows |-> rows, error |-> "not_null"]
  ELSE [rows |-> rows (+) SetToBag({Row(p, d, v)}), error |-> NoError]

\* .upsert(row, {onConflict: 'package_name,date'})
Upsert(rows, p, d, v) ==
  IF v = Undefined THEN [rows |-> rows, error |-> "not_null"]
  ELSE IF NumRows(rows, p, d) > 0
       THEN [rows |-> Others(rows, p, d)
                        (+) [r \in {Row(p, d, v)} |-> NumRows(rows, p, d)],
             error |-> NoError]
  ELSE [rows |-> rows (+) SetToBag({Row(p, d, v)}), error |-> NoError]

\* a store request that did not reach the database
Unavailable(rows) == [rows |-> rows, error |-> "unavailable"]

\* mutant: a lookup that finds nothing
SingleNothing(rows, p, d) == Null

\* .select('id').eq(...).eq(...).single(): the row, or null unless exactly one
Single(rows, p, d) ==
  IF NumRows(rows, p, d) = 1 THEN CHOOSE r \in RowsFor(rows, p, d) : TRUE
  ELSE Null

VARIABLES
  now,        \* the wall clock
  rows,       \* table package_downloads (a bag of rows)
  packages,   \* table packages (the names)
  job,        \* the local state of every job
  starts,     \* job starts so far
  app,        \* the application under observation, once a job has started
  bpackages,  \* backend table packages
  bdownloads, \* backend table package_downloads (a bag of rows)
  killed      \* the terminations from outside: the job, and the keys it had
              \* written in the run that was cut short
VARIABLE
  engine      \* the growth-metrics engine: its input and what it computed
VARIABLE
  pool        \* the pg connection pool: the clients checked out, and where
              \* every caller of pool.connect() stands

vars ==
  <<now, rows, packages, job, starts, app, bpackages, bdownloads, killed,
    engine, pool>>

\* the jobs of the dashboard application (Supabase) and of the backend (pg)
SupabaseJobs == {"backfill", "daily", "add", "dashboard", "remove"}
\* the server's DataCollector can have a second collectAllPackageData in
\* progress: nothing in index.ts or collect-data.ts keeps count of them
CollectJobs == {"collect", "collect2"}
BackendJobs == CollectJobs \cup {"addNew", "post", "delete", "historical"}
Jobs == SupabaseJobs \cup BackendJobs
AppOf(j) == IF j \in SupabaseJobs THEN "supabase" ELSE "backend"

\* the dashboard before any data was fetched
NoMetrics ==
  [data |-> <<>>, metric |-> Null, list |-> <<>>, view |-> [op |-> "none"]]

\* new Pool(dbConfig): no client is checked out, nobody waits for one
PoolCallers ==
  {"addPackage", "getAllPackages", "getPackageByName", "removePackage",
   "storeDailyDownloads", "testConnection", "initializeDatabase"}
NoClients == [out |-> 0, at |-> [c \in PoolCallers |-> "idle"]]

NoCall == [op |-> "none"]
Idle ==
  [pc |-> "idle", list |-> <<>>, k |-> 0, i |-> 0, now |-> 0, stats |-> Null,
   successCount |-> 0, errorCount |-> 0, skipCount |-> 0, out |-> Null,
   reqs |-> <<>>, wrote |-> {}, faults |-> FALSE, call |-> NoCall,
   pkg |-> Null, days |-> 0]

\* the backend's tables are filled by addNew only, one package a start
MaxStartsOf(a) == IF a = "backend" THEN MaxStarts + 1 ELSE MaxStarts
Active(j) == job[j].pc \notin {"idle", "done"}
CanStart(j) ==
  /\ ~Active(j)
  /\ starts < MaxStartsOf(AppOf(j))
  /\ app \in {"none", AppOf(j)}
  /\ Cardinality({x \in Jobs : Active(x)}) < MaxActive

Init ==
  /\ now = StartNow
  /\ rows = EmptyBag
  /\ packages = {}
  /\ job = [j \in Jobs |-> Idle]
  /\ starts = 0
  /\ app = "none"
  /\ bpackages = {}
  /\ bdownloads = EmptyBag
  /\ killed = {}
  /\ engine = NoMetrics
  /\ pool = NoClients

Tick ==
  /\ now < MaxNow
  /\ now' = now + 1
  /\ UNCHANGED <<rows, packages, job, starts, app, bpackages, bdownloads, killed, engine, pool>>

\* process-level termination of a running job
Kill(j) ==
  /\ Active(j)
  /\ Cardinality(killed) < MaxKills
  /\ j \notin {x.job : x \in killed}
  /\ job' = [job EXCEPT ![j] = Idle]
  /\ killed' = killed \cup {[job |-> j, wrote |-> job[j].wrote]}
  /\ UNCHANGED <<now, rows, packages, starts, app, bpackages, bdownloads,
                 engine, pool>>

\* ------------------------------------------- scripts/backfill.ts
dataAvailableUntil(r) == startOfDay(subDays(r.now, 3))
\* mutant: buckets six days apart
BucketEndSixDays(r) == startOfDay(subDays(dataAvailableUntil(r), 6 * r.i))
BucketEnd(r) == startOfDay(subWeeks(dataAvailableUntil(r), r.i))
BucketStart(r) == startOfDay(subDays(BucketEnd(r), 6))
\* a download request; covered: the point (p, e) was stored when it was made
FetchCall(j, p, s, e) ==
  [op |-> "fetchDownloads", job |-> j, package |-> p, start |-> s, end |-> e,
   covered |-> NumRows(rows, p, e) > 0]
WriteCall(j, o, p, d, v, err) ==
  [op |-> o, job |-> j, package |-> p, date |-> d, downloads |-> v,
   error |-> err]

\* mutant: a walk that passes over the buckets whose point is stored
RECURSIVE BfLoopSkipCovered(_)
BfLoopSkipCovered(r) ==
  IF r.i > WeeksBack
  THEN [r EXCEPT !.pc = "pkgdelay",
                 !.out = [saved |-> r.successCount, errors |-> r.errorCount]]
  ELSE IF BucketEnd(r) > r.now
            \/ NumRows(rows, r.list[r.k], format(BucketEnd(r))) > 0
       THEN BfLoopSkipCovered([r EXCEPT !.i = @ + 1])
  ELSE [r EXCEPT !.pc = "fetch"]

\* the head of the for loop of backfillPackage, up to the next await
RECURSIVE BfLoop(_)
BfLoop(r) ==
  IF r.i > WeeksBack
  THEN [r EXCEPT !.pc = "pkgdelay",
                 !.out = [saved |-> r.successCount, errors |-> r.errorCount]]
  ELSE IF BucketEnd(r) > r.now THEN BfLoop([r EXCEPT !.i = @ + 1])
  ELSE [r EXCEPT !.pc = "fetch"]

\* mutant: the test of the answer alone
TruthyAnswer(stats) == stats # Null

\* stats && stats.downloads
Truthy(stats) ==
  /\ stats # Null
  /\ stats.downloads # Undefined
  /\ stats.downloads # 0

BfStart(j) ==
  /\ j = "backfill"
  /\ CanStart(j)
  /\ job' = [job EXCEPT ![j] =
       [Idle EXCEPT !.pc = "info", !.list = PACKAGES_TO_BACKFILL, !.k = 1]]
  /\ starts' = starts + 1
  /\ app' = AppOf(j)
  /\ UNCHANGED <<now, rows, packages, bpackages, bdownloads, killed, engine, pool>>

\* fetchPackageInfo answers
BfInfo(j) ==
  /\ j = "backfill"
  /\ job[j].pc = "info"
  /\ \E ok \in BOOLEAN :
       job' = [job EXCEPT ![j].pc = IF ok THEN "saveinfo" ELSE "pkgdelay",
                          ![j].faults = ~ok,
                          ![j].call = NoCall]
  /\ UNCHANGED <<now, rows, packages, starts, app, bpackages, bdownloads, killed, engine, pool>>

\* savePackageInfo answers; now is read and the walk begins
BfSaveInfo(j) ==
  /\ j = "backfill"
  /\ job[j].pc = "saveinfo"
  /\ \E fail \in BOOLEAN :
       /\ packages' = IF fail THEN packages
                      ELSE packages \cup {job[j].list[job[j].k]}
       /\ job' = [job EXCEPT ![j] =
            BfLoop([job[j] EXCEPT !.now = now, !.i = 0, !.faults = fail,
                                  !.call = NoCall])]
  /\ UNCHANGED <<now, rows, starts, app, bpackages, bdownloads, killed, engine, pool>>

\* fetchDownloads answers
BfFetch(j) ==
  /\ j = "backfill"
  /\ job[j].pc = "fetch"
  /\ LET r == job[j]
         p == r.list[r.k]
         s == format(BucketStart(r))
         e == format(BucketEnd(r))
     IN \E resp \in Responses(p, s, e) :
          job' = [job EXCEPT ![j] =
            [r EXCEPT !.stats = resp,
                      !.reqs = Append(@, FetchCall(j, p, s, e)),
                      !.call = FetchCall(j, p, s, e),
                      !.faults = @ \/ resp \in {Null, [downloads |-> Undefined]},
                      !.pc = IF Truthy(resp) THEN "save" ELSE "delay",
                      !.errorCount = IF Truthy(resp) THEN @ ELSE @ + 1]]
  /\ UNCHANGED <<now, rows, packages, starts, app, bpackages, bdownloads, killed, engine, pool>>

\* saveDownloadStats answers; its error is logged and dropped
BfSave(j) ==
  /\ j = "backfill"
  /\ job[j].pc = "save"
  /\ LET r == job[j]
         p == r.list[r.k]
         d == format(BucketEnd(r))
         v == r.stats.downloads
     IN \E fail \in BOOLEAN :
          LET res == IF fail THEN Unavailable(rows) ELSE Upsert(rows, p, d, v)
          IN /\ rows' = res.rows
             /\ job' = [job EXCEPT ![j] =
                  [r EXCEPT !.successCount = @ + 1,
                            !.faults = @ \/ fail,
                            !.wrote = IF res.error = NoError THEN @ \cup {Key(p, d)} ELSE @,
                            !.call = WriteCall(j, "upsert", p, d, v, res.error),
                            !.pc = "delay"]]
  /\ UNCHANGED <<now, packages, starts, app, bpackages, bdownloads, killed, engine, pool>>

\* the 150 ms pause ends; next bucket
BfDelay(j) ==
  /\ j = "backfill"
  /\ job[j].pc = "delay"
  /\ job' = [job EXCEPT ![j] =
       BfLoop([job[j] EXCEPT !.i = @ + 1, !.call = NoCall])]
  /\ UNCHANGED <<now, rows, packages, starts, app, bpackages, bdownloads, killed, engine, pool>>

\* the 500 ms pause of main ends; next package
BfPkgDelay(j) ==
  /\ j = "backfill"
  /\ job[j].pc = "pkgdelay"
  /\ LET r == job[j]
     IN job' = [job EXCEPT ![j] =
          IF r.k + 1 > Len(r.list)
          THEN [Idle EXCEPT !.pc = "done", !.list = r.list, !.k = r.k + 1,
                            !.wrote = r.wrote]
          ELSE [Idle EXCEPT !.pc = "info", !.list = r.list, !.k = r.k + 1,
                            !.wrote = r.wrote]]
  /\ UNCHANGED <<now, rows, packages, starts, app, bpackages, bdownloads, killed, engine, pool>>

\* ------------------------------------------- scripts/update-daily.ts
DailyEnd(r) == startOfDay(subDays(r.now, 3))
\* mutant: a window of six days
DailyStartDateShort(r) == startOfDay(subDays(DailyEnd(r), 5))
DailyStartDate(r) == startOfDay(subDays(DailyEnd(r), 6))

\* the head of the for loop of updateDailyData, up to the next await
DailyLoop(r) ==
  IF r.k > Len(r.list)
  THEN [r EXCEPT !.pc = "done",
                 !.out = [saved |-> r.successCount, skipped |-> r.skipCount]]
  ELSE [r EXCEPT !.pc = "check"]

\* getActivePackages answers (an error gives the empty list); the window is
\* computed once for the whole run
DailyStart(j) ==
  /\ j = "daily"
  /\ CanStart(j)
  /\ \E fail \in BOOLEAN :
       job' = [job EXCEPT ![j] =
         DailyLoop([Idle EXCEPT
           !.list = IF fail THEN <<>> ELSE OrderByName(packages),
           !.k = 1, !.now = now])]
  /\ starts' = starts + 1
  /\ app' = AppOf(j)
  /\ UNCHANGED <<now, rows, packages, bpackages, bdownloads, killed, engine, pool>>

\* the lookup of the existing point answers
DailyCheck(j) ==
  /\ j = "daily"
  /\ job[j].pc = "check"
  /\ LET r == job[j]
         existing == Single(rows, r.list[r.k], format(DailyEnd(r)))
     IN job' = [job EXCEPT ![j] =
          IF existing # Null
          THEN DailyLoop([r EXCEPT !.skipCount = @ + 1, !.k = @ + 1,
                                   !.call = NoCall])
          ELSE [r EXCEPT !.pc = "fetch", !.call = NoCall]]
  /\ UNCHANGED <<now, rows, packages, starts, app, bpackages, bdownloads, killed, engine, pool>>

\* fetchDownloads answers
DailyFetch(j) ==
  /\ j = "daily"
  /\ job[j].pc = "fetch"
  /\ LET r == job[j]
         p == r.list[r.k]
         s == format(DailyStartDate(r))
         e == format(DailyEnd(r))
     IN \E resp \in Responses(p, s, e) :
          job' = [job EXCEPT ![j] =
            [r EXCEPT !.stats = resp,
                      !.reqs = Append(@, FetchCall(j, p, s, e)),
                      !.call = FetchCall(j, p, s, e),
                      !.pc = IF resp # Null THEN "save" ELSE "delay"]]
  /\ UNCHANGED <<now, rows, packages, starts, app, bpackages, bdownloads, killed, engine, pool>>

\* the insert answers
DailyInsert(j) ==
  /\ j = "daily"
  /\ job[j].pc = "save"
  /\ LET r == job[j]
         p == r.list[r.k]
         d == format(DailyEnd(r))
         v == r.stats.downloads
     IN \E fail \in BOOLEAN :
          LET res == IF fail THEN Unavailable(rows) ELSE Insert(rows, p, d, v)
          IN /\ rows' = res.rows
             /\ job' = [job EXCEPT ![j] =
                  [r EXCEPT !.successCount =
                               IF res.error = NoError THEN @ + 1 ELSE @,
                            !.wrote = IF res.error = NoError THEN @ \cup {Key(p, d)} ELSE @,
                            !.call = WriteCall(j, "insert", p, d, v, res.error),
                            !.pc = "delay"]]
  /\ UNCHANGED <<now, packages, starts, app, bpackages, bdownloads, killed, engine, pool>>

\* the 200 ms pause ends; next package
DailyDelay(j) ==
  /\ j = "daily"
  /\ job[j].pc = "delay"
  /\ job' = [job EXCEPT ![j] =
       DailyLoop([job[j] EXCEPT !.k = @ + 1, !.stats = Null, !.call = NoCall])]
  /\ UNCHANGED <<now, rows, packages, starts, app, bpackages, bdownloads, killed, engine, pool>>

\* ------------------------------------------- services/packageService.ts
\* the head of the for loop of backfillPackageData, up to the next await
RECURSIVE AddLoop(_)
AddLoop(r) ==
  IF r.i > WeeksBack
  THEN [r EXCEPT !.pc = "done",
                 !.out = [success |-> TRUE, dataPoints |-> r.successCount]]
  ELSE IF BucketEnd(r) > r.now THEN AddLoop([r EXCEPT !.i = @ + 1])
  ELSE [r EXCEPT !.pc = "fetch"]

AddFailed(r) == [r EXCEPT !.pc = "done", !.out = [success |-> FALSE]]

\* addPackage(packageName) is called
AddStart(j) ==
  /\ j = "add"
  /\ CanStart(j)
  /\ \E name \in PackageNames :
       job' = [job EXCEPT ![j] =
         [Idle EXCEPT !.pc = "info", !.list = <<name>>, !.k = 1]]
  /\ starts' = starts + 1
  /\ app' = AppOf(j)
  /\ UNCHANGED <<now, rows, packages, bpackages, bdownloads, killed, engine, pool>>

\* fetchPackageInfo answers
AddInfo(j) ==
  /\ j = "add"
  /\ job[j].pc = "info"
  /\ \E ok \in BOOLEAN :
       job' = [job EXCEPT ![j] =
         IF ok THEN [job[j] EXCEPT !.pc = "existing"] ELSE AddFailed(job[j])]
  /\ UNCHANGED <<now, rows, packages, starts, app, bpackages, bdownloads, killed, engine, pool>>

\* the lookup of the tracked package answers
AddExisting(j) ==
  /\ j = "add"
  /\ job[j].pc = "existing"
  /\ job' = [job EXCEPT ![j] =
       IF job[j].list[1] \in packages THEN AddFailed(job[j])
       ELSE [job[j] EXCEPT !.pc = "insertpkg"]]
  /\ UNCHANGED <<now, rows, packages, starts, app, bpackages, bdownloads, killed, engine, pool>>

\* the insert into packages answers; on success the backfill begins
AddInsertPackage(j) ==
  /\ j = "add"
  /\ job[j].pc = "insertpkg"
  /\ LET r == job[j]
         name == r.list[1]
     IN \E fail \in BOOLEAN :
          IF fail \/ name \in packages
          THEN /\ packages' = packages
               /\ job' = [job EXCEPT ![j] = AddFailed(r)]
          ELSE /\ packages' = packages \cup {name}
               /\ job' = [job EXCEPT ![j] =
                    AddLoop([r EXCEPT !.now = now, !.i = 0])]
  /\ UNCHANGED <<now, rows, starts, app, bpackages, bdownloads, killed, engine, pool>>

\* fetchDownloads answers
AddFetch(j) ==
  /\ j = "add"
  /\ job[j].pc = "fetch"
  /\ LET r == job[j]
         p == r.list[1]
         s == format(BucketStart(r))
         e == format(BucketEnd(r))
     IN \E resp \in Responses(p, s, e) :
          job' = [job EXCEPT ![j] =
            [r EXCEPT !.stats = resp,
                      !.reqs = Append(@, FetchCall(j, p, s, e)),
                      !.call = FetchCall(j, p, s, e),
                      !.pc = IF resp # Null /\ resp.downloads > 0
                             THEN "save" ELSE "delay"]]
  /\ UNCHANGED <<now, rows, packages, starts, app, bpackages, bdownloads, killed, engine, pool>>

\* the insert answers
AddInsert(j) ==
  /\ j = "add"
  /\ job[j].pc = "save"
  /\ LET r == job[j]
         p == r.list[1]
         d == format(BucketEnd(r))
         v == r.stats.downloads
     IN \E fail \in BOOLEAN :
          LET res == IF fail THEN Unavailable(rows) ELSE Insert(rows, p, d, v)
          IN /\ rows' = res.rows
             /\ job' = [job EXCEPT ![j] =
                  [r EXCEPT !.successCount =
                               IF res.error = NoError THEN @ + 1 ELSE @,
                            !.wrote = IF res.error = NoError THEN @ \cup {Key(p, d)} ELSE @,
                            !.call = WriteCall(j, "insert", p, d, v, res.error),
                            !.pc = "delay"]]
  /\ UNCHANGED <<now, packages, starts, app, bpackages, bdownloads, killed, engine, pool>>

\* the 200 ms pause ends; next bucket
AddDelay(j) ==
  /\ j = "add"
  /\ job[j].pc = "delay"
  /\ job' = [job EXCEPT ![j] =
       AddLoop([job[j] EXCEPT !.i = @ + 1, !.call = NoCall])]
  /\ UNCHANGED <<now, rows, packages, starts, app, bpackages, bdownloads, killed, engine, pool>>

\* ------------------------------------------- services/npmService.ts
\* the periods of updatePackageData, in days (the first two of the five)
periods == <<7, 30>>

\* mutant: a failed package ends the update
DashReturnAbort(r, success) ==
  IF success
  THEN [r EXCEPT !.pc = "pkgdelay", !.stats = Null, !.successCount = @ + 1]
  ELSE [r EXCEPT !.pc = "done", !.stats = Null]

\* mutant: no pause after updatePackageData, the next package at once
DashReturnNoPause(r, success) ==
  [Idle EXCEPT !.pc = IF r.k + 1 > Len(r.list) THEN "done" ELSE "info",
               !.list = r.list, !.k = r.k + 1, !.wrote = r.wrote,
               !.now = r.now,
               !.successCount = IF success THEN r.successCount + 1
                                ELSE r.successCount]

\* handleUpdateData: the pause after updatePackageData returned `success`
DashReturn(r, success) ==
  [r EXCEPT !.pc = "pkgdelay", !.stats = Null,
            !.successCount = IF success THEN @ + 1 ELSE @]

\* handleUpdateData is called; updatePackageData reads now
DashStart(j) ==
  /\ j = "dashboard"
  /\ CanStart(j)
  /\ job' = [job EXCEPT ![j] =
       [Idle EXCEPT !.pc = "info", !.list = topPackages, !.k = 1, !.now = now]]
  /\ starts' = starts + 1
  /\ app' = AppOf(j)
  /\ UNCHANGED <<now, rows, packages, bpackages, bdownloads, killed, engine, pool>>

\* fetchPackageInfo answers or throws
DashInfo(j) ==
  /\ j = "dashboard"
  /\ job[j].pc = "info"
  /\ \E ok \in BOOLEAN :
       job' = [job EXCEPT ![j] =
         IF ok THEN [job[j] EXCEPT !.pc = "saveinfo", !.call = NoCall]
         ELSE DashReturn([job[j] EXCEPT !.call = NoCall], FALSE)]
  /\ UNCHANGED <<now, rows, packages, starts, app, bpackages, bdownloads, killed, engine, pool>>

\* savePackageInfo answers or throws
DashSaveInfo(j) ==
  /\ j = "dashboard"
  /\ job[j].pc = "saveinfo"
  /\ \E fail \in BOOLEAN :
       IF fail
       THEN /\ packages' = packages
            /\ job' = [job EXCEPT ![j] = DashReturn(job[j], FALSE)]
       ELSE /\ packages' = packages \cup {job[j].list[job[j].k]}
            /\ job' = [job EXCEPT ![j].pc = "fetch", ![j].i = 1]
  /\ UNCHANGED <<now, rows, starts, app, bpackages, bdownloads, killed, engine, pool>>

\* fetchNPMDownloads answers or throws
DashFetch(j) ==
  /\ j = "dashboard"
  /\ job[j].pc = "fetch"
  /\ LET r == job[j]
         p == r.list[r.k]
         s == format(subDays(r.now, periods[r.i]))
         e == format(r.now)
     IN \E resp \in Responses(p, s, e) :
          job' = [job EXCEPT ![j] =
            IF resp = Null
            THEN DashReturn([r EXCEPT !.call = FetchCall(j, p, s, e)], FALSE)
            ELSE [r EXCEPT !.stats = resp, !.pc = "save",
                           !.call = FetchCall(j, p, s, e)]]
  /\ UNCHANGED <<now, rows, packages, starts, app, bpackages, bdownloads, killed, engine, pool>>

\* saveDownloadStats answers or throws
DashSave(j) ==
  /\ j = "dashboard"
  /\ job[j].pc = "save"
  /\ LET r == job[j]
         p == r.list[r.k]
         d == format(r.now)
         v == r.stats.downloads
     IN \E fail \in BOOLEAN :
          LET res == IF fail THEN Unavailable(rows) ELSE Upsert(rows, p, d, v)
              c == WriteCall(j, "upsert", p, d, v, res.error)
          IN /\ rows' = res.rows
             /\ job' = [job EXCEPT ![j] =
                  IF res.error # NoError
                  THEN DashReturn([r EXCEPT !.call = c], FALSE)
                  ELSE [r EXCEPT !.pc = "delay", !.call = c,
                                 !.wrote = @ \cup {Key(p, d)}]]
  /\ UNCHANGED <<now, packages, starts, app, bpackages, bdownloads, killed, engine, pool>>

\* the 100 ms pause ends; next period
DashDelay(j) ==
  /\ j = "dashboard"
  /\ job[j].pc = "delay"
  /\ LET r == [job[j] EXCEPT !.call = NoCall]
     IN job' = [job EXCEPT ![j] =
          IF r.i + 1 > Len(periods) THEN DashReturn(r, TRUE)
          ELSE [r EXCEPT !.i = @ + 1, !.pc = "fetch"]]
  /\ UNCHANGED <<now, rows, packages, starts, app, bpackages, bdownloads, killed, engine, pool>>

\* the 300 ms pause ends; next package
DashPkgDelay(j) ==
  /\ j = "dashboard"
  /\ job[j].pc = "pkgdelay"
  /\ LET r == job[j]
     IN job' = [job EXCEPT ![j] =
          IF r.k + 1 > Len(r.list)
          THEN [Idle EXCEPT !.pc = "done", !.list = r.list, !.k = r.k + 1,
                            !.successCount = r.successCount, !.wrote = r.wrote]
          ELSE [Idle EXCEPT !.pc = "info", !.list = r.list, !.k = r.k + 1,
                            !.successCount = r.successCount, !.wrote = r.wrote,
                            !.now = now]]
  /\ UNCHANGED <<now, rows, packages, starts, app, bpackages, bdownloads, killed, engine, pool>>

\* ------------------------------------------- backend/src (pg store)
\* downloads/range/last-month/{package}: one entry per day, up to today
RangeAnswer(p, today) ==
  [n \in 1..RangeDays |->
     [day |-> today - RangeDays + n,
      downloads |-> ProviderCount(p, today - RangeDays + n,
                                  today - RangeDays + n)]]
RangeResponses(p, today) == {Null, [downloads |-> RangeAnswer(p, today)]}

PackageRow(bp, name) == CHOOSE r \in bp : r.name = name
\* INSERT INTO packages ... ON CONFLICT (name) DO UPDATE SET (metadata)
AddPackageRows(bp, name) ==
  IF \E r \in bp : r.name = name THEN bp
  ELSE bp \cup {[id |-> Cardinality(bp) + 1, name |-> name, is_active |-> TRUE]}
\* SELECT * FROM packages WHERE is_active = true ORDER BY name
getAllPackages(bp) ==
  OrderByName({r.name : r \in {x \in bp : x.is_active}})
\* SELECT * FROM packages WHERE name = $1 AND is_active = true
getPackageByName(bp, name) ==
  IF \E r \in bp : r.name = name /\ r.is_active
  THEN CHOOSE r \in bp : r.name = name /\ r.is_active
  ELSE Null

\* the rows of storeDailyDownloads, upserted one after the other: what the
\* loop of upserts leaves is, for every day of the list, the row of the last
\* entry of that day (in every copy of a row it met), and all other rows
UpsertAll(bd, id, downloads) ==
  LET entries == {n \in 1..Len(downloads) : downloads[n].downloads # Undefined}
      days == {downloads[n].day : n \in entries}
      last(d) ==
        CHOOSE n \in entries :
          /\ downloads[n].day = d
          /\ \A m \in entries : downloads[m].day = d => m <= n
      others == {r \in BagToSet(bd) : r.package_name # id \/ r.date \notin days}
  IN [r \in others |-> bd[r]]
       (+) [r \in {Row(id, d, downloads[last(d)].downloads) : d \in days} |->
              IF NumRows(bd, id, r.date) > 0 THEN NumRows(bd, id, r.date)
              ELSE 1]

\* where a call of storeDailyDownloads can fail: nowhere, at pool.connect,
\* at BEGIN, at the INSERT of row n, at COMMIT
StoreFaults(downloads) ==
  {[at |-> a, n |-> 0] : a \in {"none", "connect", "begin", "commit"}}
    \cup {[at |-> "row", n |-> n] : n \in 1..Len(downloads)}

\* mutant: the rows written one by one, outside a transaction
storeDailyDownloadsNoTx(bd, id, downloads, fault, rollbackOk) ==
  IF fault.at = "connect" THEN [rows |-> bd, result |-> "throw"]
  ELSE IF fault.at \in {"none", "commit"}
       THEN [rows |-> UpsertAll(bd, id, downloads),
             result |-> IF fault.at = "none" THEN "true"
                        ELSE IF rollbackOk THEN "false" ELSE "throw"]
  ELSE [rows |-> UpsertAll(bd, id, SubSeq(downloads, 1, fault.n - 1)),
        result |-> IF rollbackOk THEN "false" ELSE "throw"]

\* storeDailyDownloads: BEGIN, one upsert a row, COMMIT and true; an error
\* goes to the catch block, which runs ROLLBACK and returns false, or throws
\* when the ROLLBACK is not answered either; uncommitted rows are never seen
storeDailyDownloads(bd, id, downloads, fault, rollbackOk) ==
  IF fault.at = "connect" THEN [rows |-> bd, result |-> "throw"]
  ELSE IF fault.at = "none"
       THEN [rows |-> UpsertAll(bd, id, downloads), result |-> "true"]
  ELSE [rows |-> bd, result |-> IF rollbackOk THEN "false" ELSE "throw"]
\* the call of storeDailyDownloads a job made, and how it ended
StoreCall(id, fault, result) ==
  [op |-> "storeDailyDownloads", id |-> id, fault |-> fault,
   result |-> result]

\* the head of the for loop of collectAllPackageData, up to the next await
CollectLoop(r) ==
  IF r.k > Len(r.list)
  THEN [Idle EXCEPT !.pc = "done", !.list = r.list, !.k = r.k,
                    !.out = [completed |-> TRUE]]
  ELSE [Idle EXCEPT !.pc = "info", !.list = r.list, !.k = r.k]
\* collectPackageData returns; the 500 ms pause
CollectReturn(r) == [r EXCEPT !.pc = "pkgdelay", !.stats = Null]

\* collectAllPackageData is called and getAllPackages answers: the rows, the
\* empty list on a query error, or it throws when no client can be acquired
CollectStart(j) ==
  /\ j = "collect"
  /\ CanStart(j)
  /\ \E answer \in {"rows", "error", "throw"} :
       job' = [job EXCEPT ![j] =
         IF answer = "throw"
         THEN [Idle EXCEPT !.pc = "done", !.out = [completed |-> FALSE]]
         ELSE CollectLoop([Idle EXCEPT
                !.list = IF answer = "rows" THEN getAllPackages(bpackages)
                         ELSE <<>>,
                !.k = 1])]
  /\ starts' = starts + 1
  /\ app' = AppOf(j)
  /\ UNCHANGED <<now, rows, packages, bpackages, bdownloads, killed, engine, pool>>

\* getPackageInfo answers
CollectInfo(j) ==
  /\ j \in CollectJobs
  /\ job[j].pc = "info"
  /\ \E ok \in BOOLEAN :
       job' = [job EXCEPT ![j] =
         IF ok THEN [job[j] EXCEPT !.pc = "addpkg"] ELSE CollectReturn(job[j])]
  /\ UNCHANGED <<now, rows, packages, starts, app, bpackages, bdownloads, killed, engine, pool>>

\* packageService.addPackage answers (null on error) or throws
CollectAddPackage(j) ==
  /\ j \in CollectJobs
  /\ job[j].pc = "addpkg"
  /\ LET r == job[j]
         name == r.list[r.k]
     IN \E fail \in BOOLEAN :
          IF fail
          THEN /\ bpackages' = bpackages
               /\ job' = [job EXCEPT ![j] = CollectReturn(r)]
          ELSE /\ bpackages' = AddPackageRows(bpackages, name)
               /\ job' = [job EXCEPT ![j] =
                    [r EXCEPT !.pc = "stats",
                              !.pkg = PackageRow(AddPackageRows(bpackages, name),
                                                 name)]]
  /\ UNCHANGED <<now, rows, packages, starts, app, bdownloads, killed, engine, pool>>

\* getDownloadStats(packageName, 'last-month') answers
CollectStats(j) ==
  /\ j \in CollectJobs
  /\ job[j].pc = "stats"
  /\ LET r == job[j]
     IN \E resp \in RangeResponses(r.list[r.k], format(now)) :
          job' = [job EXCEPT ![j] =
            IF resp = Null THEN CollectReturn(r)
            ELSE [r EXCEPT !.pc = "store", !.stats = resp]]
  /\ UNCHANGED <<now, rows, packages, starts, app, bpackages, bdownloads, killed, engine, pool>>

\* storeDailyDownloads answers: committed (true), or rolled back (false), or
\* it throws when no client can be acquired
CollectStore(j) ==
  /\ j \in CollectJobs
  /\ job[j].pc = "store"
  /\ LET r == job[j]
     IN \E fault \in StoreFaults(r.stats.downloads), rollbackOk \in BOOLEAN :
          LET res == storeDailyDownloads(bdownloads, r.pkg.id,
                                         r.stats.downloads, fault, rollbackOk)
              c == StoreCall(r.pkg.id, fault, res.result)
          IN /\ bdownloads' = res.rows
             /\ job' = [job EXCEPT ![j] =
                  IF res.result = "true"
                  THEN [r EXCEPT !.pc = "weekly", !.call = c]
                  ELSE CollectReturn([r EXCEPT !.call = c])]
  /\ UNCHANGED <<now, rows, packages, starts, app, bpackages, killed, engine, pool>>

\* calculateWeeklyStats answers or throws
CollectWeekly(j) ==
  /\ j \in CollectJobs
  /\ job[j].pc = "weekly"
  /\ job' = [job EXCEPT ![j] = CollectReturn(job[j])]
  /\ UNCHANGED <<now, rows, packages, starts, app, bpackages, bdownloads, killed, engine, pool>>

\* the 500 ms pause ends; next package
CollectPkgDelay(j) ==
  /\ j \in CollectJobs
  /\ job[j].pc = "pkgdelay"
  /\ job' = [job EXCEPT ![j] = CollectLoop([job[j] EXCEPT !.k = @ + 1])]
  /\ UNCHANGED <<now, rows, packages, starts, app, bpackages, bdownloads, killed, engine, pool>>

\* addNewPackage returns `success`
AddNewReturn(r, success) ==
  [Idle EXCEPT !.pc = "done", !.list = r.list, !.out = [success |-> success]]

\* mutant: addNewPackage without the validation of the name
addNewPackageUnchecked(packageName) ==
  [Idle EXCEPT !.pc = "info", !.list = <<packageName>>, !.k = 1]
\* addNewPackage(packageName) up to its first await: the name is validated,
\* then getPackageInfo is requested
addNewPackage(packageName) ==
  IF ~npmServiceIsValidPackageName(packageName)
  THEN AddNewReturn([Idle EXCEPT !.list = <<packageName>>], FALSE)
  ELSE [Idle EXCEPT !.pc = "info", !.list = <<packageName>>, !.k = 1]

\* addNewPackage(packageName) is called with the name of a package to track
AddNewStart(j) ==
  /\ j = "addNew"
  /\ CanStart(j)
  /\ \E name \in PackageNames :
       job' = [job EXCEPT ![j] = addNewPackage(name)]
  /\ starts' = starts + 1
  /\ app' = AppOf(j)
  /\ UNCHANGED <<now, rows, packages, bpackages, bdownloads, killed, engine, pool>>

\* getPackageInfo answers
AddNewInfo(j) ==
  /\ j = "addNew"
  /\ job[j].pc = "info"
  /\ \E ok \in BOOLEAN :
       job' = [job EXCEPT ![j] =
         IF ok THEN [job[j] EXCEPT !.pc = "existing"]
         ELSE AddNewReturn(job[j], FALSE)]
  /\ UNCHANGED <<now, rows, packages, starts, app, bpackages, bdownloads, killed, engine, pool>>

\* getPackageByName answers (null on error) or throws
AddNewExisting(j) ==
  /\ j = "addNew"
  /\ job[j].pc = "existing"
  /\ LET r == job[j]
     IN \E answer \in {"row", "error", "throw"} :
          job' = [job EXCEPT ![j] =
            IF answer = "throw" THEN AddNewReturn(r, FALSE)
            ELSE IF answer = "row" /\ getPackageByName(bpackages, r.list[1]) # Null
                 THEN AddNewReturn(r, TRUE)
            ELSE [r EXCEPT !.pc = "addpkg"]]
  /\ UNCHANGED <<now, rows, packages, starts, app, bpackages, bdownloads, killed, engine, pool>>

\* packageService.addPackage answers (null on error) or throws
AddNewAddPackage(j) ==
  /\ j = "addNew"
  /\ job[j].pc = "addpkg"
  /\ LET r == job[j]
         name == r.list[1]
     IN \E fail \in BOOLEAN :
          IF fail
          THEN /\ bpackages' = bpackages
               /\ job' = [job EXCEPT ![j] = AddNewReturn(r, FALSE)]
          ELSE /\ bpackages' = AddPackageRows(bpackages, name)
               /\ job' = [job EXCEPT ![j] =
                    [r EXCEPT !.pc = "stats",
                              !.pkg = PackageRow(AddPackageRows(bpackages, name),
                                                 name)]]
  /\ UNCHANGED <<now, rows, packages, starts, app, bdownloads, killed, engine, pool>>

\* getDownloadStats(packageName, 'last-month') answers
AddNewStats(j) ==
  /\ j = "addNew"
  /\ job[j].pc = "stats"
  /\ LET r == job[j]
     IN \E resp \in RangeResponses(r.list[1], format(now)) :
          job' = [job EXCEPT ![j] =
            IF resp = Null THEN AddNewReturn(r, TRUE)
            ELSE [r EXCEPT !.pc = "store", !.stats = resp]]
  /\ UNCHANGED <<now, rows, packages, starts, app, bpackages, bdownloads, killed, engine, pool>>

\* storeDailyDownloads answers (its result is not read) or throws
AddNewStore(j) ==
  /\ j = "addNew"
  /\ job[j].pc = "store"
  /\ LET r == job[j]
     IN \E fault \in StoreFaults(r.stats.downloads), rollbackOk \in BOOLEAN :
          LET res == storeDailyDownloads(bdownloads, r.pkg.id,
                                         r.stats.downloads, fault, rollbackOk)
              c == StoreCall(r.pkg.id, fault, res.result)
          IN /\ bdownloads' = res.rows
             /\ job' = [job EXCEPT ![j] =
                  IF res.result = "throw"
                  THEN [AddNewReturn(r, FALSE) EXCEPT !.call = c]
                  ELSE [r EXCEPT !.pc = "weekly", !.call = c]]
  /\ UNCHANGED <<now, rows, packages, starts, app, bpackages, killed, engine, pool>>

\* calculateWeeklyStats answers (its result is not read) or throws
AddNewWeekly(j) ==
  /\ j = "addNew"
  /\ job[j].pc = "weekly"
  /\ \E throws \in BOOLEAN :
       job' = [job EXCEPT ![j] = AddNewReturn(job[j], ~throws)]
  /\ UNCHANGED <<now, rows, packages, starts, app, bpackages, bdownloads, killed, engine, pool>>

Next ==
  \/ Tick
  \/ \E j \in Jobs : Kill(j)
  \/ \E j \in Jobs : BfStart(j)
  \/ \E j \in Jobs : BfInfo(j)
  \/ \E j \in Jobs : BfSaveInfo(j)
  \/ \E j \in Jobs : BfFetch(j)
  \/ \E j \in Jobs : BfSave(j)
  \/ \E j \in Jobs : BfDelay(j)
  \/ \E j \in Jobs : BfPkgDelay(j)
  \/ \E j \in Jobs : DailyStart(j)
  \/ \E j \in Jobs : DailyCheck(j)
  \/ \E j \in Jobs : DailyFetch(j)
  \/ \E j \in Jobs : DailyInsert(j)
  \/ \E j \in Jobs : DailyDelay(j)
  \/ \E j \in Jobs : AddStart(j)
  \/ \E j \in Jobs : AddInfo(j)
  \/ \E j \in Jobs : AddExisting(j)
  \/ \E j \in Jobs : AddInsertPackage(j)
  \/ \E j \in Jobs : AddFetch(j)
  \/ \E j \in Jobs : AddInsert(j)
  \/ \E j \in Jobs : AddDelay(j)
  \/ \E j \in Jobs : DashStart(j)
  \/ \E j \in Jobs : DashInfo(j)
  \/ \E j \in Jobs : DashSaveInfo(j)
  \/ \E j \in Jobs : DashFetch(j)
  \/ \E j \in Jobs : DashSave(j)
  \/ \E j \in Jobs : DashDelay(j)
  \/ \E j \in Jobs : DashPkgDelay(j)
  \/ \E j \in Jobs : CollectStart(j)
  \/ \E j \in Jobs : CollectInfo(j)
  \/ \E j \in Jobs : CollectAddPackage(j)
  \/ \E j \in Jobs : CollectStats(j)
  \/ \E j \in Jobs : CollectStore(j)
  \/ \E j \in Jobs : CollectWeekly(j)
  \/ \E j \in Jobs : CollectPkgDelay(j)
  \/ \E j \in Jobs : AddNewStart(j)
  \/ \E j \in Jobs : AddNewInfo(j)
  \/ \E j \in Jobs : AddNewExisting(j)
  \/ \E j \in Jobs : AddNewAddPackage(j)
  \/ \E j \in Jobs : AddNewStats(j)
  \/ \E j \in Jobs : AddNewStore(j)
  \/ \E j \in Jobs : AddNewWeekly(j)

Spec == Init /\ [][Next]_vars

\* the continuation of job j after the call or timer it awaits
Step(j) ==
  \/ BfInfo(j) \/ BfSaveInfo(j) \/ BfFetch(j) \/ BfSave(j) \/ BfDelay(j)
  \/ BfPkgDelay(j)
  \/ DailyCheck(j) \/ DailyFetch(j) \/ DailyInsert(j) \/ DailyDelay(j)
  \/ AddInfo(j) \/ AddExisting(j) \/ AddInsertPackage(j) \/ AddFetch(j)
  \/ AddInsert(j) \/ AddDelay(j)
  \/ DashInfo(j) \/ DashSaveInfo(j) \/ DashFetch(j) \/ DashSave(j)
  \/ DashDelay(j) \/ DashPkgDelay(j)
  \/ CollectInfo(j) \/ CollectAddPackage(j) \/ CollectStats(j)
  \/ CollectStore(j) \/ CollectWeekly(j) \/ CollectPkgDelay(j)
  \/ AddNewInfo(j) \/ AddNewExisting(j) \/ AddNewAddPackage(j)
  \/ AddNewStats(j) \/ AddNewStore(j) \/ AddNewWeekly(j)

\* the entry point of job j is called
Start(j) ==
  \/ BfStart(j) \/ DailyStart(j) \/ AddStart(j) \/ DashStart(j)
  \/ CollectStart(j) \/ AddNewStart(j)

\* the jobs left to themselves: nobody terminates one, and the clock, which
\* no loop condition reads, stands still
FairNext == \E j \in Jobs : Start(j) \/ Step(j)

\* every awaited call answers and every timer fires: a job that can take its
\* next step takes it
FairSpec == Init /\ [][FairNext]_vars /\ \A j \in Jobs : WF_vars(Step(j))

\* ------------------------------------------- the ways to add a package
\* the response of POST /api/packages
Response(r, status, body) ==
  [Idle EXCEPT !.pc = "done", !.list = r.list,
               !.out = [status |-> status, body |-> body]]

\* npm run collect add <package-name>: main calls addNewPackage(args[1])
CliAdd(j) ==
  /\ j = "addNew"
  /\ CanStart(j)
  /\ job["post"].pc # "adding"
  /\ \E name \in Names :
       job' = [job EXCEPT ![j] = addNewPackage(name)]
  /\ starts' = starts + 1
  /\ app' = AppOf(j)
  /\ UNCHANGED <<now, rows, packages, bpackages, bdownloads, killed, engine, pool>>

\* POST /api/packages with the body { name }: the name is required and
\* validated, then getPackageByName is awaited
PostStart(j) ==
  /\ j = "post"
  /\ CanStart(j)
  /\ \E name \in Names :
       LET r == [Idle EXCEPT !.list = <<name>>]
       IN job' = [job EXCEPT ![j] =
            IF name = "" THEN Response(r, 400, "Package name is required")
            ELSE IF ~npmServiceIsValidPackageName(name)
                 THEN Response(r, 400, "Invalid package name format")
            ELSE [r EXCEPT !.pc = "existing"]]
  /\ starts' = starts + 1
  /\ app' = AppOf(j)
  /\ UNCHANGED <<now, rows, packages, bpackages, bdownloads, killed, engine, pool>>

\* getPackageByName answers (null on error) or throws; a name not yet tracked
\* is handed to dataCollector.addNewPackage
PostExisting(j) ==
  /\ j = "post"
  /\ job[j].pc = "existing"
  /\ ~Active("addNew")
  /\ LET r == job[j]
     IN \E answer \in {"row", "error", "throw"} :
          job' =
            IF answer = "throw"
            THEN [job EXCEPT ![j] = Response(r, 500, "Failed to add package")]
            ELSE IF answer = "row"
                      /\ getPackageByName(bpackages, r.list[1]) # Null
                 THEN [job EXCEPT ![j] =
                         Response(r, 409, "Package is already being tracked")]
            ELSE [job EXCEPT ![j] = [r EXCEPT !.pc = "adding"],
                             !["addNew"] = addNewPackage(r.list[1])]
  /\ UNCHANGED <<now, rows, packages, starts, app, bpackages, bdownloads,
                 killed, engine, pool>>

\* addNewPackage returned to the handler
PostAdded(j) ==
  /\ j = "post"
  /\ job[j].pc = "adding"
  /\ job["addNew"].pc = "done"
  /\ job' = [job EXCEPT ![j] =
       IF job["addNew"].out.success THEN [job[j] EXCEPT !.pc = "final"]
       ELSE Response(job[j], 500, "Failed to add package")]
  /\ UNCHANGED <<now, rows, packages, starts, app, bpackages, bdownloads,
                 killed, engine, pool>>

\* the lookup of the added package answers
PostFinal(j) ==
  /\ j = "post"
  /\ job[j].pc = "final"
  /\ \E answer \in {"row", "error", "throw"} :
       job' = [job EXCEPT ![j] =
         IF answer = "throw"
         THEN Response(job[j], 500, "Failed to add package")
         ELSE Response(job[j], 200,
                IF answer = "row"
                THEN getPackageByName(bpackages, job[j].list[1])
                ELSE Null)]
  /\ UNCHANGED <<now, rows, packages, starts, app, bpackages, bdownloads,
                 killed, engine, pool>>

\* AddPackageModal.handleSubmit: the trimmed name is validated, then
\* addPackage(trimmedName) is awaited
HandleSubmit(j) ==
  /\ j = "add"
  /\ CanStart(j)
  /\ \E packageName \in Names :
       LET trimmedName == trim(packageName)
       IN job' = [job EXCEPT ![j] =
            IF ~isValidPackageName(trimmedName)
            THEN [Idle EXCEPT !.pc = "done", !.list = <<trimmedName>>,
                    !.out = [success |-> FALSE,
                             message |-> "Invalid package name format"]]
            ELSE [Idle EXCEPT !.pc = "info", !.list = <<trimmedName>>,
                              !.k = 1]]
  /\ starts' = starts + 1
  /\ app' = AppOf(j)
  /\ UNCHANGED <<now, rows, packages, bpackages, bdownloads, killed, engine, pool>>

\* the three ways to add a package, and the calls they await
AddPathNext ==
  \/ \E j \in Jobs : CliAdd(j)
  \/ \E j \in Jobs : PostStart(j)
  \/ \E j \in Jobs : PostExisting(j)
  \/ \E j \in Jobs : PostAdded(j)
  \/ \E j \in Jobs : PostFinal(j)
  \/ \E j \in Jobs : HandleSubmit(j)
  \/ \E j \in Jobs : AddNewInfo(j)
  \/ \E j \in Jobs : AddNewExisting(j)
  \/ \E j \in Jobs : AddNewAddPackage(j)
  \/ \E j \in Jobs : AddNewStats(j)
  \/ \E j \in Jobs : AddNewStore(j)
  \/ \E j \in Jobs : AddNewWeekly(j)
  \/ \E j \in Jobs : AddInfo(j)
  \/ \E j \in Jobs : AddExisting(j)
  \/ \E j \in Jobs : AddInsertPackage(j)
  \/ \E j \in Jobs : AddFetch(j)
  \/ \E j \in Jobs : AddInsert(j)
  \/ \E j \in Jobs : AddDelay(j)

AddPathSpec == Init /\ [][AddPathNext]_vars

\* ------------------------------------------- removal and retention
\* .from('package_downloads').delete().eq('package_name', packageName)
DeleteDownloads(rs, packageName) ==
  LET kept == {r \in BagToSet(rs) : r.package_name # packageName}
  IN [r \in kept |-> CopiesIn(r, rs)]
\* what a delete request can answer: the rows are deleted, row level security
\* hides them from the request (no error, nothing deleted), or an error
DeleteAnswers == {"deleted", "denied", "error"}
\* removePackage returns
RemoveReturn(r, success) ==
  [Idle EXCEPT !.pc = "done", !.list = r.list, !.out = [success |-> success]]

\* removePackage(packageName) is called (dashboard service)
RemoveStart(j) ==
  /\ j = "remove"
  /\ CanStart(j)
  /\ \E name \in PackageNames :
       job' = [job EXCEPT ![j] =
         [Idle EXCEPT !.pc = "downloads", !.list = <<name>>, !.k = 1]]
  /\ starts' = starts + 1
  /\ app' = AppOf(j)
  /\ UNCHANGED <<now, rows, packages, bpackages, bdownloads, killed, engine, pool>>

\* 1. the delete of the package's download points answers
RemoveDownloads(j) ==
  /\ j = "remove"
  /\ job[j].pc = "downloads"
  /\ \E answer \in DeleteAnswers :
       /\ rows' = IF answer = "deleted"
                  THEN DeleteDownloads(rows, job[j].list[1])
                  ELSE rows
       /\ job' = [job EXCEPT ![j] =
            IF answer = "error" THEN RemoveReturn(job[j], FALSE)
            ELSE [job[j] EXCEPT !.pc = "package"]]
  /\ UNCHANGED <<now, packages, starts, app, bpackages, bdownloads, killed,
                 engine, pool>>

\* 2. the delete of the package row answers
RemovePackage(j) ==
  /\ j = "remove"
  /\ job[j].pc = "package"
  /\ \E answer \in DeleteAnswers :
       /\ packages' = IF answer = "deleted"
                      THEN packages \ {job[j].list[1]}
                      ELSE packages
       /\ job' = [job EXCEPT ![j] = RemoveReturn(job[j], answer # "error")]
  /\ UNCHANGED <<now, rows, starts, app, bpackages, bdownloads, killed,
                 engine, pool>>

\* days_to_keep of the calls of clean_old_download_data (400 by default)
KeepDays == {5, 400}
\* DELETE FROM package_downloads WHERE date < CURRENT_DATE - days_to_keep
clean_old_download_data(rs, today, days_to_keep) ==
  LET kept == {r \in BagToSet(rs) : ~(r.date < today - days_to_keep)}
  IN [r \in kept |-> CopiesIn(r, rs)]
\* clean_old_download_data is run, by hand or by cron
Cleanup ==
  /\ app = "supabase"
  /\ \E days_to_keep \in KeepDays :
       rows' = clean_old_download_data(rows, format(now), days_to_keep)
  /\ UNCHANGED <<now, packages, job, starts, app, bpackages, bdownloads,
                 killed, engine, pool>>

\* UPDATE packages SET is_active = false WHERE id = $1
Deactivate(bp, packageId) ==
  {IF r.id = packageId THEN [r EXCEPT !.is_active = FALSE] ELSE r : r \in bp}
\* the ids a DELETE request can name; NaN stands for an id that is no number
NaNId == 0
PackageIds == {NaNId, 1, 2, 3}

\* DELETE /api/packages/:id: the id is parsed, then removePackage is awaited
DeleteStart(j) ==
  /\ j = "delete"
  /\ CanStart(j)
  /\ \E packageId \in PackageIds :
       job' = [job EXCEPT ![j] =
         IF packageId = NaNId
         THEN [Idle EXCEPT !.pc = "done", !.k = packageId,
                 !.out = [status |-> 400, body |-> "Invalid package ID"]]
         ELSE [Idle EXCEPT !.pc = "remove", !.k = packageId]]
  /\ starts' = starts + 1
  /\ app' = AppOf(j)
  /\ UNCHANGED <<now, rows, packages, bpackages, bdownloads, killed, engine, pool>>

\* PackageService.removePackage answers: rowCount > 0, false on a query
\* error, or it throws when no client can be acquired
DeleteAnswer(j) ==
  /\ j = "delete"
  /\ job[j].pc = "remove"
  /\ \E answer \in {"updated", "error", "throw"} :
       LET r == job[j]
           found == \E p \in bpackages : p.id = r.k
           out == IF answer = "throw"
                  THEN [status |-> 500, body |-> "Failed to remove package"]
                  ELSE IF answer = "updated" /\ found
                       THEN [status |-> 200,
                             body |-> "Package removed from tracking"]
                  ELSE [status |-> 404, body |-> "Package not found"]
       IN /\ bpackages' = IF answer = "updated"
                          THEN Deactivate(bpackages, r.k)
                          ELSE bpackages
          /\ job' = [job EXCEPT ![j] =
               [Idle EXCEPT !.pc = "done", !.k = r.k, !.out = out]]
  /\ UNCHANGED <<now, rows, packages, starts, app, bdownloads, killed, engine, pool>>

\* packages are removed while others are added and updated
RemoveNext ==
  \/ \E j \in Jobs : RemoveStart(j)
  \/ \E j \in Jobs : RemoveDownloads(j)
  \/ \E j \in Jobs : RemovePackage(j)
  \/ Cleanup
  \/ \E j \in Jobs : BfStart(j)
  \/ \E j \in Jobs : BfInfo(j)
  \/ \E j \in Jobs : BfSaveInfo(j)
  \/ \E j \in Jobs : BfFetch(j)
  \/ \E j \in Jobs : BfSave(j)
  \/ \E j \in Jobs : BfDelay(j)
  \/ \E j \in Jobs : BfPkgDelay(j)
  \/ \E j \in Jobs : DailyStart(j)
  \/ \E j \in Jobs : DailyCheck(j)
  \/ \E j \in Jobs : DailyFetch(j)
  \/ \E j \in Jobs : DailyInsert(j)
  \/ \E j \in Jobs : DailyDelay(j)
  \/ \E j \in Jobs : DeleteStart(j)
  \/ \E j \in Jobs : DeleteAnswer(j)
  \/ \E j \in Jobs : AddNewStart(j)
  \/ \E j \in Jobs : AddNewInfo(j)
  \/ \E j \in Jobs : AddNewExisting(j)
  \/ \E j \in Jobs : AddNewAddPackage(j)
  \/ \E j \in Jobs : AddNewStats(j)
  \/ \E j \in Jobs : AddNewStore(j)
  \/ \E j \in Jobs : AddNewWeekly(j)

RemoveSpec == Init /\ [][RemoveNext]_vars

\* ------------------------------------------- utils/growthCalculations.ts
\* JavaScript numbers: a fraction in lowest terms, +-Infinity, or NaN. The
\* arithmetic is exact where the source's is floating-point.
Abs(x) == IF x < 0 THEN 0 - x ELSE x
RECURSIVE GCD(_, _)
GCD(a, b) == IF b = 0 THEN a ELSE GCD(b, a % b)
Norm(n, d) ==
  LET g == GCD(Abs(n), Abs(d))
      sg == IF d < 0 THEN 0 - 1 ELSE 1
  IN [k |-> "fin", n |-> (sg * n) \div g, d |-> (sg * d) \div g]
Num(n) == Norm(n, 1)
Infinity == [k |-> "inf", n |-> 1, d |-> 0]
NegInfinity == [k |-> "inf", n |-> 0 - 1, d |-> 0]
NaN == [k |-> "nan", n |-> 0, d |-> 0]
\* a - b
Minus(a, b) ==
  IF a.k = "nan" \/ b.k = "nan" THEN NaN
  ELSE IF a.k = "inf" /\ b.k = "inf" THEN (IF a.n = b.n THEN NaN ELSE a)
  ELSE IF a.k = "inf" THEN a
  ELSE IF b.k = "inf" THEN (IF b.n > 0 THEN NegInfinity ELSE Infinity)
  ELSE Norm(a.n * b.d - b.n * a.d, a.d * b.d)
\* a / b, of finite numbers
Over(a, b) ==
  IF b.n = 0
  THEN (IF a.n = 0 THEN NaN ELSE IF a.n > 0 THEN Infinity ELSE NegInfinity)
  ELSE Norm(a.n * b.d, a.d * b.n)
\* a * b, of finite numbers
Times(a, b) == Norm(a.n * b.n, a.d * b.d)
\* a > b
Greater(a, b) == LET m == Minus(a, b) IN m.k # "nan" /\ m.n > 0
\* what Array.prototype.sort makes of a comparator's result: its sign, NaN as 0
Sign(a) == IF a.k = "nan" \/ a.n = 0 THEN 0 ELSE IF a.n > 0 THEN 1 ELSE 0 - 1

\* Array.prototype.sort(compare): stable, by the comparator's sign
Elements(s) == {s[i] : i \in 1..Len(s)}
StableSort(s, compare) ==
  LET pos(i) ==
        1 + Cardinality({j \in 1..Len(s) :
                           \/ compare[s[j], s[i]] < 0
                           \/ compare[s[j], s[i]] = 0 /\ j < i})
  IN [p \in 1..Len(s) |-> s[CHOOSE i \in 1..Len(s) : pos(i) = p]]

\* mutant: no growth from nothing
calculateGrowthRateFlat(current, previous) ==
  IF previous = 0 THEN Num(0)
  ELSE Times(Over(Num(current - previous), Num(previous)), Num(100))

calculateGrowthRate(current, previous) ==
  IF previous = 0 THEN (IF current > 0 THEN Infinity ELSE Num(0))
  ELSE Times(Over(Num(current - previous), Num(previous)), Num(100))

\* the growthRates array of isExponentialGrowth
growthRates(h) ==
  [i \in 1..(Len(h) - 1) |-> calculateGrowthRate(h[i + 1], h[i])]
\* its accelerationCount
accelerationCount(h) ==
  Cardinality({i \in 2..Len(growthRates(h)) :
                 Greater(growthRates(h)[i], growthRates(h)[i - 1])})
\* mutant: a threshold of 40%
isExponentialGrowthLow(h) ==
  IF Len(h) < 3 THEN FALSE
  ELSE Greater(Over(Num(accelerationCount(h)), Num(Len(growthRates(h)) - 1)),
               Norm(4, 10))

isExponentialGrowth(h) ==
  IF Len(h) < 3 THEN FALSE
  ELSE Greater(Over(Num(accelerationCount(h)), Num(Len(growthRates(h)) - 1)),
               Norm(6, 10))

\* mutant: the change over the first three points
calculateAccelerationFirst(h) ==
  IF Len(h) < 3 THEN Null
  ELSE Minus(calculateGrowthRate(h[3], h[2]), calculateGrowthRate(h[2], h[1]))

calculateAcceleration(h) ==
  IF Len(h) < 3 THEN Null
  ELSE Minus(calculateGrowthRate(h[Len(h)], h[Len(h) - 1]),
             calculateGrowthRate(h[Len(h) - 1], h[Len(h) - 2]))

\* mutant: growing decided before accelerating
determineTrendGrowingFirst(growthRate, acceleration, isExponential) ==
  IF isExponential THEN "exponential"
  ELSE IF Greater(growthRate, Num(20)) THEN "growing"
  ELSE IF acceleration # Null /\ Greater(acceleration, Num(10))
       THEN "accelerating"
  ELSE IF Greater(growthRate, Num(0 - 10)) THEN "stable"
  ELSE "declining"

determineTrend(growthRate, acceleration, isExponential) ==
  IF isExponential THEN "exponential"
  ELSE IF acceleration # Null /\ Greater(acceleration, Num(10))
       THEN "accelerating"
  ELSE IF Greater(growthRate, Num(20)) THEN "growing"
  ELSE IF Greater(growthRate, Num(0 - 10)) THEN "stable"
  ELSE "declining"

\* new Date(date).getTime(), a date being a calendar day
getTime(date) == date * TicksPerDay
\* mutant: the data taken in the order it came
sortedDataUnsorted(downloadData) == downloadData
\* [...downloadData].sort((a, b) => getTime(a.date) - getTime(b.date))
sortedData(downloadData) ==
  StableSort(downloadData,
             [a \in Elements(downloadData), b \in Elements(downloadData) |->
                Sign(Num(getTime(a.date) - getTime(b.date)))])

\* mutant: an acceleration of 0 where there is none
degenerateZero(packageName, downloadData) ==
  [packageName |-> packageName,
   currentDownloads |-> IF Len(downloadData) = 0 THEN 0
                        ELSE downloadData[1].downloads,
   previousDownloads |-> 0,
   growthRate |-> Num(0),
   percentageGrowth |-> Num(0),
   isExponential |-> FALSE,
   acceleration |-> Num(0),
   trend |-> "stable",
   dataPoints |-> Len(downloadData)]
\* the record returned for fewer than 2 data points;
\* downloadData[0]?.downloads || 0
degenerate(packageName, downloadData) ==
  [packageName |-> packageName,
   currentDownloads |-> IF Len(downloadData) = 0 THEN 0
                        ELSE downloadData[1].downloads,
   previousDownloads |-> 0,
   growthRate |-> Num(0),
   percentageGrowth |-> Num(0),
   isExponential |-> FALSE,
   acceleration |-> Null,
   trend |-> "stable",
   dataPoints |-> Len(downloadData)]

calculateGrowthMetrics(packageName, downloadData) ==
  IF Len(downloadData) < 2 THEN degenerate(packageName, downloadData)
  ELSE LET h == [i \in 1..Len(downloadData) |->
                   sortedData(downloadData)[i].downloads]
           current == h[Len(h)]
           previous == h[Len(h) - 1]
           growthRate == calculateGrowthRate(current, previous)
           acceleration == calculateAcceleration(h)
           isExponential == isExponentialGrowth(h)
       IN [packageName |-> packageName,
           currentDownloads |-> current,
           previousDownloads |-> previous,
           growthRate |-> growthRate,
           percentageGrowth |-> growthRate,
           isExponential |-> isExponential,
           acceleration |-> acceleration,
           trend |-> determineTrend(growthRate, acceleration, isExponential),
           dataPoints |-> Len(downloadData)]

\* mutant: the comparator without the exponential-first rule
sortByGrowthRateOnly(metrics) ==
  StableSort(metrics,
             [a \in Elements(metrics), b \in Elements(metrics) |->
                Sign(Minus(b.growthRate, a.growthRate))])
sortByGrowth(metrics) ==
  StableSort(metrics,
             [a \in Elements(metrics), b \in Elements(metrics) |->
                IF a.isExponential /\ ~b.isExponential THEN 0 - 1
                ELSE IF ~a.isExponential /\ b.isExponential THEN 1
                ELSE Sign(Minus(b.growthRate, a.growthRate))])
\* Array.prototype.slice(0, end)
slice(s, end) ==
  LET e == IF end < 0 THEN (IF Len(s) + end < 0 THEN 0 ELSE Len(s) + end)
           ELSE IF end > Len(s) THEN Len(s) ELSE end
  IN SubSeq(s, 1, e)
getTopGrowing(metrics, limit) == slice(sortByGrowth(metrics), limit)

\* ------------------------------------------- components/Dashboard.tsx
\* the collation order of the package names
Collation == <<"react", "svelte", "vue">>
IndexOf(name) == CHOOSE i \in 1..Len(Collation) : Collation[i] = name
localeCompare(a, b) ==
  IF IndexOf(a) < IndexOf(b) THEN 0 - 1 ELSE IF IndexOf(a) > IndexOf(b) THEN 1
  ELSE 0
\* mutant: null acceleration compared as the number 0
comparisonNullAsZero(a, b, sortBy) ==
  IF sortBy = "growth" THEN Sign(Minus(b.growthRate, a.growthRate))
  ELSE IF sortBy = "acceleration"
       THEN Sign(Minus(IF b.acceleration = Null THEN Num(0) ELSE b.acceleration,
                       IF a.acceleration = Null THEN Num(0) ELSE a.acceleration))
  ELSE IF sortBy = "downloads"
       THEN Sign(Num(b.currentDownloads - a.currentDownloads))
  ELSE localeCompare(a.packageName, b.packageName)
\* the comparison of sortMetrics, before the sort order is applied
comparison(a, b, sortBy) ==
  IF sortBy = "growth" THEN Sign(Minus(b.growthRate, a.growthRate))
  ELSE IF sortBy = "acceleration"
       THEN IF a.acceleration = Null /\ b.acceleration = Null THEN 0
            ELSE IF a.acceleration = Null THEN 1
            ELSE IF b.acceleration = Null THEN 0 - 1
            ELSE Sign(Minus(b.acceleration, a.acceleration))
  ELSE IF sortBy = "downloads"
       THEN Sign(Num(b.currentDownloads - a.currentDownloads))
  ELSE localeCompare(a.packageName, b.packageName)
sortMetrics(metrics, sortBy, sortOrder) ==
  StableSort(metrics,
             [a \in Elements(metrics), b \in Elements(metrics) |->
                IF sortOrder = "asc" THEN 0 - comparison(a, b, sortBy)
                ELSE comparison(a, b, sortBy)])

\* the inputs of the engine: download histories, oldest first
MaxPoints == 4
MaxMetrics == 3
EngineValues == {0, 1, 2}
Examples ==
  {<<100, 150>>, <<100, 0>>, <<0, 100>>, <<100, 150, 300>>,
   <<100, 150, 225, 338>>, <<100, 120, 180, 400>>, <<100, 125, 100>>,
   <<100, 120, 150>>, <<100, 95, 80>>, <<6, 2, 1>>, <<3, 6, 2, 1>>}
Histories ==
  UNION {[1..n -> EngineValues] : n \in 0..MaxPoints} \cup Examples
\* the orders in which the points of a history can arrive
Perms(n) ==
  {f \in [1..n -> 1..n] : \A i \in 1..n : \A j \in 1..n : f[i] = f[j] => i = j}
\* the rows of a history, the i-th at date i, in the order f
Rows(h, f) ==
  [i \in 1..Len(h) |-> [date |-> f[i], downloads |-> h[f[i]]]]
\* .order('date', { ascending: false })
Descending(h) == [i \in 1..Len(h) |-> Len(h) + 1 - i]
\* the histories of the packages of a dashboard
ListHistories ==
  {<<1>>, <<1, 3>>, <<1, 1, 1>>, <<1, 1, 2>>, <<0, 0, 1>>, <<1, 2, 2>>,
   <<2, 2, 1>>}

\* calculateGrowthMetrics is applied to the rows of one package
Calculate ==
  /\ engine = NoMetrics
  /\ \E h \in Histories : \E f \in Perms(Len(h)) :
       engine' = [NoMetrics EXCEPT
                    !.data = Rows(h, f),
                    !.metric = calculateGrowthMetrics("react", Rows(h, f))]
  /\ UNCHANGED <<now, rows, packages, job, starts, app, bpackages, bdownloads,
                 killed, pool>>

\* fetchData: the metric of the next package is pushed to the list
Push ==
  /\ engine.metric = Null
  /\ Len(engine.list) < MaxMetrics
  /\ \E h \in ListHistories :
       engine' =
         [NoMetrics EXCEPT
            !.list = Append(engine.list,
                       calculateGrowthMetrics(Collation[Len(engine.list) + 1],
                                              Rows(h, Descending(h))))]
  /\ UNCHANGED <<now, rows, packages, job, starts, app, bpackages, bdownloads,
                 killed, pool>>

\* what the dashboard shows of its list
View(op, sortBy, sortOrder, limit, result) ==
  [op |-> op, sortBy |-> sortBy, sortOrder |-> sortOrder, limit |-> limit,
   result |-> result]

\* fetchData (second version): the list is sorted by the chosen key and order
SortView ==
  /\ engine.list # <<>>
  /\ \E sortBy \in {"growth", "acceleration", "downloads", "name"} :
       \E sortOrder \in {"asc", "desc"} :
         engine' = [engine EXCEPT !.view =
           View("sortMetrics", sortBy, sortOrder, 0,
                sortMetrics(engine.list, sortBy, sortOrder))]
  /\ UNCHANGED <<now, rows, packages, job, starts, app, bpackages, bdownloads,
                 killed, pool>>

\* fetchData (first version): the top of the list by growth
TopView ==
  /\ engine.list # <<>>
  /\ \E limit \in 0..(MaxMetrics + 1) :
       engine' = [engine EXCEPT !.view =
         View("getTopGrowing", "growth", "desc", limit,
              getTopGrowing(engine.list, limit))]
  /\ UNCHANGED <<now, rows, packages, job, starts, app, bpackages, bdownloads,
                 killed, pool>>

EngineNext == Calculate \/ Push \/ SortView \/ TopView
EngineSpec == Init /\ [][EngineNext]_vars

\* ------------------------------------------- POST /api/collect
\* the handler calls dataCollector.collectAllPackageData() without awaiting
\* it and answers 200; the collection reads its list as in CollectStart
PostCollect(j) ==
  /\ j \in CollectJobs
  /\ CanStart(j)
  /\ \E answer \in {"rows", "error", "throw"} :
       job' = [job EXCEPT ![j] =
         IF answer = "throw"
         THEN [Idle EXCEPT !.pc = "done", !.out = [completed |-> FALSE]]
         ELSE CollectLoop([Idle EXCEPT
                !.list = IF answer = "rows" THEN getAllPackages(bpackages)
                         ELSE <<>>,
                !.k = 1])]
  /\ starts' = starts + 1
  /\ app' = AppOf(j)
  /\ UNCHANGED <<now, rows, packages, bpackages, bdownloads, killed, engine, pool>>

\* the server: packages are added, collections are requested
CollectNext ==
  \/ \E j \in Jobs : PostCollect(j)
  \/ \E j \in Jobs : CollectInfo(j)
  \/ \E j \in Jobs : CollectAddPackage(j)
  \/ \E j \in Jobs : CollectStats(j)
  \/ \E j \in Jobs : CollectStore(j)
  \/ \E j \in Jobs : CollectWeekly(j)
  \/ \E j \in Jobs : CollectPkgDelay(j)
  \/ \E j \in Jobs : AddNewStart(j)
  \/ \E j \in Jobs : AddNewInfo(j)
  \/ \E j \in Jobs : AddNewExisting(j)
  \/ \E j \in Jobs : AddNewAddPackage(j)
  \/ \E j \in Jobs : AddNewStats(j)
  \/ \E j \in Jobs : AddNewStore(j)
  \/ \E j \in Jobs : AddNewWeekly(j)
CollectSpec == Init /\ [][CollectNext]_vars

\* ------------------------------------------- collectHistoricalData
\* 30-day chunks
chunkSize == 30
\* the days asked for on the command line (default 90)
HistDays == {1, 30, 31, 61}
\* Math.ceil(days / chunkSize)
chunks(days) == (days + chunkSize - 1) \div chunkSize
\* Math.min
min(a, b) == IF a < b THEN a ELSE b
\* getDateRange(days) on the day `today`: end is today, start is `days` days
\* before it
getDateRange(today, days) == [start |-> today - days, end |-> today]
\* the provider's answer to /range/start:end/p: one row a day
DaysAnswer(p, start, end) ==
  [n \in 1..(end - start + 1) |->
     [day |-> start + n - 1,
      downloads |-> ProviderCount(p, start + n - 1, start + n - 1)]]
\* the head of the for loop, up to the next await: the next chunk is requested,
\* or calculateWeeklyStats is called after the last one
HistLoop(r) ==
  IF r.i < chunks(r.days) THEN [r EXCEPT !.pc = "fetch", !.stats = Null]
  ELSE [r EXCEPT !.pc = "weekly", !.stats = Null]
\* collectHistoricalData returns
HistReturn(r) == [r EXCEPT !.pc = "done", !.stats = Null]

\* npm run collect historical <package> [days]: getPackageByName answers (null
\* on error or for an unknown name) or throws
HistStart(j) ==
  /\ j = "historical"
  /\ CanStart(j)
  /\ \E name \in PackageNames, days \in HistDays,
        answer \in {"row", "error", "throw"} :
       LET r == [Idle EXCEPT !.list = <<name>>, !.days = days]
           pkg == IF answer = "row" THEN getPackageByName(bpackages, name)
                  ELSE Null
       IN job' = [job EXCEPT ![j] =
            IF pkg = Null THEN HistReturn(r)
            ELSE HistLoop([r EXCEPT !.pkg = pkg])]
  /\ starts' = starts + 1
  /\ app' = AppOf(j)
  /\ UNCHANGED <<now, rows, packages, bpackages, bdownloads, killed, engine, pool>>

\* chunk i: getDownloadStatsByDateRange(packageName, start, endDate) answers
\* (null on error)
HistFetch(j) ==
  /\ j = "historical"
  /\ job[j].pc = "fetch"
  /\ LET r == job[j]
         endDaysAgo == r.i * chunkSize
         startDaysAgo == min((r.i + 1) * chunkSize, r.days)
         start == getDateRange(format(now), startDaysAgo).start
         endDate == getDateRange(format(now), endDaysAgo).end
         req == [start |-> start, end |-> endDate, today |-> format(now)]
     IN \E ok \in BOOLEAN :
          job' = [job EXCEPT ![j] =
            IF ok
            THEN [r EXCEPT !.pc = "store", !.reqs = Append(@, req),
                    !.stats = [downloads |->
                                 DaysAnswer(r.list[1], start, endDate)]]
            ELSE [r EXCEPT !.pc = "delay", !.reqs = Append(@, req)]]
  /\ UNCHANGED <<now, rows, packages, starts, app, bpackages, bdownloads, killed, engine, pool>>

\* storeDailyDownloads answers (its result is not read) or throws, which ends
\* collectHistoricalData in its catch block
HistStore(j) ==
  /\ j = "historical"
  /\ job[j].pc = "store"
  /\ LET r == job[j]
     IN \E fault \in StoreFaults(r.stats.downloads), rollbackOk \in BOOLEAN :
          LET res == storeDailyDownloads(bdownloads, r.pkg.id,
                                         r.stats.downloads, fault, rollbackOk)
          IN /\ bdownloads' = res.rows
             /\ job' = [job EXCEPT ![j] =
                  IF res.result = "throw" THEN HistReturn(r)
                  ELSE [r EXCEPT !.pc = "delay", !.stats = Null]]
  /\ UNCHANGED <<now, rows, packages, starts, app, bpackages, killed, engine, pool>>

\* the 1000 ms pause between chunks ends
HistDelay(j) ==
  /\ j = "historical"
  /\ job[j].pc = "delay"
  /\ job' = [job EXCEPT ![j] = HistLoop([job[j] EXCEPT !.i = @ + 1])]
  /\ UNCHANGED <<now, rows, packages, starts, app, bpackages, bdownloads, killed, engine, pool>>

\* calculateWeeklyStats answers or throws
HistWeekly(j) ==
  /\ j = "historical"
  /\ job[j].pc = "weekly"
  /\ job' = [job EXCEPT ![j] =
       HistReturn([job[j] EXCEPT !.successCount = @ + 1])]
  /\ UNCHANGED <<now, rows, packages, starts, app, bpackages, bdownloads, killed, engine, pool>>

\* packages are added, their history is collected
HistNext ==
  \/ \E j \in Jobs : HistStart(j)
  \/ \E j \in Jobs : HistFetch(j)
  \/ \E j \in Jobs : HistStore(j)
  \/ \E j \in Jobs : HistDelay(j)
  \/ \E j \in Jobs : HistWeekly(j)
  \/ \E j \in Jobs : AddNewStart(j)
  \/ \E j \in Jobs : AddNewInfo(j)
  \/ \E j \in Jobs : AddNewExisting(j)
  \/ \E j \in Jobs : AddNewAddPackage(j)
  \/ \E j \in Jobs : AddNewStats(j)
  \/ \E j \in Jobs : AddNewStore(j)
  \/ \E j \in Jobs : AddNewWeekly(j)
HistSpec == Init /\ [][HistNext]_vars

\* ------------------------------------------- the pg pool (config/database.ts)
\* dbConfig.max: the clients the pool hands out at most; pool.connect()
\* rejects after connectionTimeoutMillis when none is free
max == 20
\* the callers whose client.release() stands in a finally block
FinallyCallers ==
  {"addPackage", "getAllPackages", "getPackageByName", "removePackage",
   "storeDailyDownloads"}
\* client.release(): the client goes back to the pool and the call returns
release(p, c) == [out |-> p.out - 1, at |-> [p.at EXCEPT ![c] = "idle"]]
\* the call returns or throws without client.release()
leak(p, c) == [out |-> p.out, at |-> [p.at EXCEPT ![c] = "idle"]]

\* const client = await pool.connect(): a client is checked out, or the
\* promise rejects and the call ends (no client was acquired)
PoolConnect(c) ==
  /\ pool.at[c] = "idle"
  /\ \E ok \in BOOLEAN :
       pool' = IF ok /\ pool.out < max
               THEN [out |-> pool.out + 1, at |-> [pool.at EXCEPT ![c] = "query"]]
               ELSE pool
  /\ UNCHANGED <<now, rows, packages, job, starts, app, bpackages, bdownloads,
                 killed, engine>>

\* the queries of the try block are answered, or one of them throws.
\* PackageService: the finally block releases on both ways, storeDailyDownloads
\* awaits ROLLBACK in its catch block first. testConnection and
\* initializeDatabase release at the end of the try block only;
\* initializeDatabase goes on to read and run schema.sql when the table is
\* missing
PoolQuery(c) ==
  /\ pool.at[c] = "query"
  /\ \E answer \in {"ok", "missing", "throw"} :
       pool' =
         IF c \in FinallyCallers
         THEN IF c = "storeDailyDownloads" /\ answer = "throw"
              THEN [pool EXCEPT !.at[c] = "rollback"]
              ELSE release(pool, c)
         ELSE IF answer = "throw" THEN leak(pool, c)
         ELSE IF c = "initializeDatabase" /\ answer = "missing"
              THEN [pool EXCEPT !.at[c] = "schema"]
         ELSE release(pool, c)
  /\ UNCHANGED <<now, rows, packages, job, starts, app, bpackages, bdownloads,
                 killed, engine>>

\* storeDailyDownloads: ROLLBACK is answered or throws; finally releases
PoolRollback(c) ==
  /\ pool.at[c] = "rollback"
  /\ pool' = release(pool, c)
  /\ UNCHANGED <<now, rows, packages, job, starts, app, bpackages, bdownloads,
                 killed, engine>>

\* initializeDatabase: fs.readFile and client.query(schema) succeed, or one
\* of them throws and the catch block rethrows
PoolSchema(c) ==
  /\ pool.at[c] = "schema"
  /\ \E throws \in BOOLEAN :
       pool' = IF throws THEN leak(pool, c) ELSE release(pool, c)
  /\ UNCHANGED <<now, rows, packages, job, starts, app, bpackages, bdownloads,
                 killed, engine>>

\* the callers of pool.connect(), in any interleaving
PoolNext ==
  \/ \E c \in PoolCallers : PoolConnect(c)
  \/ \E c \in PoolCallers : PoolQuery(c)
  \/ \E c \in PoolCallers : PoolRollback(c)
  \/ \E c \in PoolCallers : PoolSchema(c)
PoolSpec == Init /\ [][PoolNext]_vars

\* ------------------------------------------------------------ properties
\* C1: in every reachable state the store holds at most one DownloadPoint per
\* (package, date), whatever writers ran and however they interleaved.
C1_OnePointPerKey ==
  \A r \in BagToSet(rows) : NumRows(rows, r.package_name, r.date) = 1
\* a writer's insert met a point another writer had stored for the same key
C1_Witness ==
  \E j \in Jobs : job[j].call.op = "insert" /\ job[j].call.error = "unique"

\* the download counts a second upsert is tried with
UpsertValues == {0, 1, 7}
\* the (package, date, downloads) of the upsert a job is about to issue
UpsertArgs(j) ==
  LET r == job[j]
  IN [p |-> r.list[r.k],
      d |-> IF j = "backfill" THEN format(BucketEnd(r)) ELSE format(r.now),
      v |-> r.stats.downloads]
\* C2: upsert(pkg, date, downloads) twice with the same arguments leaves
\* exactly one row with that content and the store as after the first call;
\* a second call with other downloads leaves exactly one row holding the
\* latest value; no call is an error. Checked for every upsert a job issues,
\* from the store it is issued on.
C2_UpsertIdempotent ==
  \A j \in {"backfill", "dashboard"} :
    (job[j].pc = "save" /\ job[j].stats.downloads # Undefined) =>
      LET x == UpsertArgs(j)
          a == Upsert(rows, x.p, x.d, x.v)
          b == Upsert(a.rows, x.p, x.d, x.v)
      IN /\ a.error = NoError /\ b.error = NoError
         /\ b.rows = a.rows
         /\ NumRows(a.rows, x.p, x.d) = 1
         /\ RowsFor(a.rows, x.p, x.d) = {Row(x.p, x.d, x.v)}
         /\ \A w \in UpsertValues :
              LET c == Upsert(a.rows, x.p, x.d, w)
              IN /\ c.error = NoError
                 /\ NumRows(c.rows, x.p, x.d) = 1
                 /\ RowsFor(c.rows, x.p, x.d) = {Row(x.p, x.d, w)}
                 /\ Others(c.rows, x.p, x.d) = Others(rows, x.p, x.d)
\* the dashboard update upserted one key twice, with two different counts,
\* and the key holds the second one
C2_Witness ==
  LET r == job["dashboard"]
  IN /\ r.i = 2
     /\ r.call.op = "upsert"
     /\ r.call.error = NoError
     /\ r.call.downloads #
          ProviderCount(r.call.package, r.call.date - periods[1], r.call.date)
     /\ NumRows(rows, r.call.package, r.call.date) = 1
     /\ RowsFor(rows, r.call.package, r.call.date) =
          {Row(r.call.package, r.call.date, r.call.downloads)}

\* the jobs that write one point per weekly bucket
WeeklyWriters == {"backfill", "daily", "add"}
\* the keys a weekly writer's accepted writes went to, ended runs included
WrittenKeys ==
  UNION {job[j].wrote : j \in WeeklyWriters}
    \cup UNION {x.wrote : x \in {y \in killed : y.job \in WeeklyWriters}}
\* C3: whatever way the read, fetch and write steps of a daily update and of
\* the backfills interleave, a (package, date) key that any of them wrote
\* holds one and the same final content: exactly one row, with the provider's
\* count for the 7-day window ending at that date.
C3_SameFinalState ==
  \A key \in WrittenKeys :
    /\ NumRows(rows, key.package, key.date) = 1
    /\ RowsFor(rows, key.package, key.date) =
         {Row(key.package, key.date,
              ProviderCount(key.package, key.date - 6, key.date))}
\* a daily update and a backfill, both running, have both written one key
C3_Witness ==
  /\ Active("daily") /\ Active("backfill")
  /\ job["daily"].wrote \cap job["backfill"].wrote # {}

\* every bucket of package p, for a walk that read the clock at t, is stored
\* with the provider's count (the buckets the provider has downloads for)
Full(p, t) ==
  \A i \in 0..WeeksBack :
    LET e == format(BucketEnd([now |-> t, i |-> i]))
        c == ProviderCount(p, e - 6, e)
    IN c > 0 => /\ NumRows(rows, p, e) = 1
                /\ RowsFor(rows, p, e) = {Row(p, e, c)}
\* a backfill walk without a failed call ends with every bucket stored, and a
\* daily update that saved or skipped every package with every point stored,
\* whether or not an earlier run was cut short
C4_CleanRunStored ==
  /\ LET r == job["backfill"]
     IN (r.pc = "pkgdelay" /\ r.out # Null /\ ~r.faults) =>
          Full(r.list[r.k], r.now)
  /\ LET r == job["daily"]
     IN (r.pc = "done" /\ r.out.saved + r.out.skipped = Len(r.list)) =>
          \A n \in 1..Len(r.list) :
            NumRows(rows, r.list[n], format(DailyEnd(r))) = 1
\* a step of a backfill whose package is fully stored, or of a daily update
\* whose package has its point, leaves the store as it is; and what is fully
\* stored stays so
C4_RerunNoChange ==
  /\ LET r == job["backfill"]
     IN (job'["backfill"] # r /\ r.pc \in {"fetch", "save", "delay"}
           /\ Full(r.list[r.k], r.now)) => rows' = rows
  /\ LET r == job["daily"]
     IN (job'["daily"] # r /\ r.pc \in {"check", "fetch", "save", "delay"}
           /\ NumRows(rows, r.list[r.k], format(DailyEnd(r))) = 1) =>
          rows' = rows
  /\ rows' # rows =>
       \A p \in PackageNames : \A t \in StartNow..MaxNow :
         Full(p, t) => Full(p, t)'
\* C4: the backfill and the daily update can be run again: with the provider
\* answering the same counts, a run over a store that already holds the run's
\* points changes no stored point, and a backfill resumed after it was cut
\* short ends, like an uninterrupted one, with exactly the provider's point in
\* every bucket.
C4_Rerunnable == []C4_CleanRunStored /\ [][C4_RerunNoChange]_vars
\* a backfill was cut short after it had written a key, was started again,
\* wrote that key again and finished the package without a failed call
C4_Witness ==
  LET r == job["backfill"]
  IN /\ r.pc = "pkgdelay" /\ r.out # Null /\ ~r.faults
     /\ \E x \in killed : x.job = "backfill" /\ x.wrote \cap r.wrote # {}

\* the calendar day of the cutoff of a walk: start of day of (now - 3 days)
CutoffDay(r) == (r.now \div TicksPerDay) - 3
\* the walk of the package is over
WalkDone(j) ==
  IF j = "backfill" THEN job[j].pc = "pkgdelay" /\ job[j].out # Null
  ELSE job[j].pc = "done" /\ job[j].out.success
\* C5: the n-th bucket a backfill (weeksBack = N) requests is bucket i = n - 1:
\* it ends at cutoff - 7 * i days and starts 6 days earlier; the end dates
\* are at most N + 1, strictly decreasing, none after now, and a finished
\* walk requested all of i = 0..N.
C5_BucketWalk ==
  \A j \in {"backfill", "add"} :
    LET r == job[j]
    IN /\ Len(r.reqs) <= WeeksBack + 1
       /\ \A n \in 1..Len(r.reqs) :
            /\ r.reqs[n].end = CutoffDay(r) - 7 * (n - 1)
            /\ r.reqs[n].start = r.reqs[n].end - 6
            /\ r.reqs[n].end * TicksPerDay <= r.now
            /\ \A m \in 1..Len(r.reqs) :
                 m < n => r.reqs[m].end > r.reqs[n].end
       /\ (r.pc \notin {"idle", "info", "saveinfo", "existing", "insertpkg"}
             /\ WalkDone(j)) => Len(r.reqs) = WeeksBack + 1
\* a backfill walk is over and has requested buckets 0..N across a midnight
C5_Witness ==
  LET r == job["backfill"]
  IN /\ WalkDone("backfill")
     /\ Len(r.reqs) = WeeksBack + 1
     /\ r.now = MaxNow

\* the provider returned a positive downloads number
Positive(stats) ==
  /\ stats # Null
  /\ stats.downloads # Undefined
  /\ stats.downloads > 0
\* the backfill is about to upsert only a positive count, and a finished walk
\* has fetched every bucket and counted each as saved or as a miss
C6_SaveOnlyPositive ==
  /\ \A j \in {"backfill", "add"} :
       job[j].pc = "save" => Positive(job[j].stats)
  /\ LET r == job["backfill"]
     IN WalkDone("backfill") =>
          /\ Len(r.reqs) = WeeksBack + 1
          /\ r.out.saved + r.out.errors = WeeksBack + 1
\* the steps of the walk of backfillPackage: after the fetch, a positive
\* count goes to the upsert and anything else is counted as a miss, without a
\* write; the upsert is issued for the bucket's key with the fetched count;
\* after the pause the next bucket follows, whatever the fetch and the upsert
\* answered; no other step of the backfill writes
C6_WalkStep ==
  LET r == job["backfill"]
      r2 == job'["backfill"]
      p == r.list[r.k]
      d == format(BucketEnd(r))
  IN /\ (r.pc = "fetch" /\ r2 # r /\ r2.pc # "idle") =>
          IF Positive(r2.stats)
          THEN r2.pc = "save" /\ r2.errorCount = r.errorCount
          ELSE r2.pc = "delay" /\ r2.errorCount = r.errorCount + 1
     /\ (r.pc = "save" /\ r2 # r /\ r2.pc # "idle") =>
          /\ r2.pc = "delay"
          /\ r2.call = WriteCall("backfill", "upsert", p, d, r.stats.downloads,
                                 r2.call.error)
          /\ r2.call.error = NoError =>
               /\ NumRows(rows', p, d) = 1
               /\ RowsFor(rows', p, d) = {Row(p, d, r.stats.downloads)}
     /\ (r.pc = "delay" /\ r2 # r /\ r2.pc # "idle") =>
          IF r.i < WeeksBack THEN r2.pc = "fetch" /\ r2.i = r.i + 1
          ELSE r2.pc = "pkgdelay"
     /\ (r2 # r /\ r.pc # "save") => rows' = rows
C7_ExactCounts ==
  LET r == job["backfill"]
  IN WalkDone("backfill") =>
       /\ r.out.saved =
            Cardinality({key \in r.wrote : key.package = r.list[r.k]})
       /\ r.out.saved + r.out.errors = Len(r.reqs)

\* C8 as stated: no download request of a backfill is for a bucket whose
\* point was in the store when the request was made.
C8_NoFetchForCovered ==
  \A j \in {"backfill", "add"} :
    \A n \in 1..Len(job[j].reqs) : ~job[j].reqs[n].covered
\* C8: a backfill requests every bucket i = 0..N that is not in the future,
\* whether or not its point is stored: at bucket i of the walk exactly the
\* buckets before it have been requested, and a finished walk has requested
\* all N + 1.
C8_FetchesEveryBucket ==
  \A j \in {"backfill", "add"} :
    LET r == job[j]
    IN /\ r.pc = "fetch" => Len(r.reqs) = r.i
       /\ r.pc \in {"save", "delay"} => Len(r.reqs) = r.i + 1
       /\ (r.pc \in {"pkgdelay", "done"} /\ r.out # Null /\ WalkDone(j)) =>
            Len(r.reqs) = WeeksBack + 1
\* a finished backfill walk has requested every bucket although each of
\* them was stored when requested
C8_Witness ==
  LET r == job["backfill"]
  IN /\ WalkDone("backfill")
     /\ Len(r.reqs) = WeeksBack + 1
     /\ \A n \in 1..Len(r.reqs) : r.reqs[n].covered

\* the requests of a daily update: one window for the whole run, the 7 days
\* ending at start of day of (now - 3 days); at most one request a package;
\* at the end every package was either skipped or requested
C9_OneBucket ==
  LET r == job["daily"]
  IN /\ \A n \in 1..Len(r.reqs) :
          /\ r.reqs[n].end = (r.now \div TicksPerDay) - 3
          /\ r.reqs[n].start = r.reqs[n].end - 6
          /\ \E m \in 1..Len(r.list) : r.list[m] = r.reqs[n].package
          /\ \A m \in 1..Len(r.reqs) :
               m # n => r.reqs[m].package # r.reqs[n].package
     /\ r.pc = "done" => r.skipCount + Len(r.reqs) = Len(r.list)
\* the step after the lookup: with a point stored at the date the package is
\* counted as skipped and left, without request and without write; without
\* one the request follows
C9_SkipStep ==
  LET r == job["daily"]
      r2 == job'["daily"]
  IN (r.pc = "check" /\ r2 # r /\ r2.pc # "idle") =>
       IF NumRows(rows, r.list[r.k], (r.now \div TicksPerDay) - 3) > 0
       THEN /\ r2.k = r.k + 1
            /\ r2.skipCount = r.skipCount + 1
            /\ r2.reqs = r.reqs
            /\ r2.pc \in {"check", "done"}
            /\ rows' = rows
       ELSE r2.pc = "fetch" /\ r2.k = r.k /\ rows' = rows
BatchJobs == {"backfill", "daily", "collect", "dashboard"}
\* the job has come to the end of its list
Finished(j) ==
  job[j].pc = "done" /\ job[j].k = Len(job[j].list) + 1
\* a batch job that ended, other than by failing to read its list, ended
\* behind the last package of the list
C10_DoneMeansAll ==
  \A j \in BatchJobs :
    (job[j].pc = "done" /\ (j = "collect" => job[j].out.completed))
      => Finished(j)
\* a running batch job moves through its list one package at a time
C10_OneByOne ==
  \A j \in BatchJobs :
    (Active(j) /\ job'[j].pc # "idle") =>
      /\ job'[j].list = job[j].list
      /\ job'[j].k \in {job[j].k, job[j].k + 1}
\* C10: in every batch job a provider failure or a storage error on one
\* package does not end the batch: a running job comes to the end of its
\* list, having taken up every package of it in turn.
C10_BatchNeverAborted ==
  /\ []C10_DoneMeansAll
  /\ [][C10_OneByOne]_vars
  /\ \A j \in BatchJobs : Active(j) ~> Finished(j)
\* the dashboard update came to the end of its list although a package of it
\* had failed
C10_Witness ==
  LET r == job["dashboard"]
  IN /\ Finished("dashboard")
     /\ Len(r.list) = 2
     /\ r.successCount < Len(r.list)

\* C11 as stated: a call of storeDailyDownloads in which the write of a row
\* failed returned false.
C11_RowFailureReturnsFalse ==
  \A j \in BackendJobs :
    (job[j].call.op = "storeDailyDownloads" /\ job[j].call.fault.at = "row")
      => job[j].call.result = "false"
\* the step in which storeDailyDownloads answers: after true every row of
\* the batch is stored; after a failure at BEGIN, at a row or at COMMIT the
\* store is as it was before the call, and the call has returned false or,
\* with the ROLLBACK failing too, has thrown
C11_StoreStep ==
  \A j \in BackendJobs :
    (job[j].pc = "store" /\ job'[j] # job[j] /\ job'[j].pc # "idle") =>
      LET c == job'[j].call
          id == job[j].pkg.id
          dl == job[j].stats.downloads
      IN /\ c.op = "storeDailyDownloads"
         /\ c.result = "true" =>
              /\ c.fault.at = "none"
              /\ \A n \in 1..Len(dl) :
                   /\ NumRows(bdownloads', id, dl[n].day) = 1
                   /\ RowsFor(bdownloads', id, dl[n].day) =
                        {Row(id, dl[n].day, dl[n].downloads)}
         /\ c.fault.at # "none" =>
              /\ bdownloads' = bdownloads
              /\ c.result \in {"false", "throw"}
         /\ c.result = "false" => c.fault.at \in {"begin", "row", "commit"}
\* C11: storeDailyDownloads is all-or-nothing: when BEGIN, the write of a row
\* or COMMIT fails, no row of the batch becomes visible and the call returns
\* false or throws; when it returns true every row of the batch is stored.
C11_AllOrNothing == [][C11_StoreStep]_vars
\* the write of the last row of a batch failed after the rows before it had
\* been written: the call returned false and the package has no row
C11_Witness ==
  \E j \in BackendJobs :
    /\ job[j].call.op = "storeDailyDownloads"
    /\ job[j].call.fault = [at |-> "row", n |-> RangeDays]
    /\ job[j].call.result = "false"
    /\ \A r \in BagToSet(bdownloads) : r.package_name # job[j].call.id

\* the downloads of the engine's input, oldest first
ByDate(data) ==
  [i \in 1..Len(data) |->
     (CHOOSE p \in {data[n] : n \in 1..Len(data)} : p.date = i).downloads]
\* the number x is the fraction n / d (d > 0)
IsFraction(x, n, d) == x.k = "fin" /\ x.n * d = n * x.d
\* C12: calculateGrowthRate(current, previous) is (current - previous) /
\* previous * 100 when previous is not 0; with previous = 0 it is Infinity for
\* current > 0 and 0 otherwise; growthRate(0, 0) = 0, growthRate(100, 0) =
\* Infinity, growthRate(150, 100) = 50. Checked for every pair of downloads of
\* the input.
C12_GrowthRate ==
  /\ calculateGrowthRate(0, 0) = Num(0)
  /\ calculateGrowthRate(100, 0) = Infinity
  /\ calculateGrowthRate(150, 100) = Num(50)
  /\ \A i \in 1..Len(engine.data) : \A j \in 1..Len(engine.data) :
       LET current == engine.data[i].downloads
           previous == engine.data[j].downloads
           g == calculateGrowthRate(current, previous)
       IN IF previous # 0
          THEN IsFraction(g, 100 * (current - previous), previous)
          ELSE IF current > 0 THEN g = Infinity ELSE g = Num(0)
\* the metrics of a package that went from 0 downloads to some
C12_Witness ==
  /\ engine.metric # Null
  /\ engine.metric.previousDownloads = 0
  /\ engine.metric.currentDownloads > 0
  /\ engine.metric.dataPoints >= 2
  /\ engine.metric.growthRate = Infinity

\* C13: for fewer than 2 data points calculateGrowthMetrics returns growthRate
\* 0, acceleration null, isExponential false, trend stable, previousDownloads
\* 0 and as currentDownloads the single point's value, or 0 without a point.
C13_Degenerate ==
  (engine.metric # Null /\ Len(engine.data) < 2) =>
    /\ engine.metric.growthRate = Num(0)
    /\ engine.metric.acceleration = Null
    /\ engine.metric.isExponential = FALSE
    /\ engine.metric.trend = "stable"
    /\ engine.metric.previousDownloads = 0
    /\ engine.metric.dataPoints = Len(engine.data)
    /\ engine.metric.currentDownloads =
         IF Len(engine.data) = 0 THEN 0 ELSE engine.data[1].downloads
\* the metrics of a single point with downloads
C13_Witness ==
  /\ engine.metric # Null
  /\ Len(engine.data) = 1
  /\ engine.metric.currentDownloads > 0

\* C14: the acceleration is null for fewer than 3 points and otherwise
\* growthRate(last, second-last) - growthRate(second-last, third-last), 50
\* for [100, 150, 300]; it is null, not the number 0, exactly when there are
\* fewer than 3 points.
C14_Acceleration ==
  /\ calculateAcceleration(<<100, 150, 300>>) = Num(50)
  /\ engine.metric # Null =>
       LET h == ByDate(engine.data)
           n == Len(h)
           a == engine.metric.acceleration
       IN /\ (a = Null) <=> (n < 3)
          /\ calculateAcceleration(h) = a
          /\ n >= 3 =>
               /\ a = Minus(calculateGrowthRate(h[n], h[n - 1]),
                            calculateGrowthRate(h[n - 1], h[n - 2]))
               /\ (h[n - 1] # 0 /\ h[n - 2] # 0) =>
                    IsFraction(a,
                      100 * (h[n] - h[n - 1]) * h[n - 2]
                        - 100 * (h[n - 1] - h[n - 2]) * h[n - 1],
                      h[n - 1] * h[n - 2])
\* four points, arriving newest first, whose last three give another
\* acceleration than the first three
C14_Witness ==
  /\ engine.metric # Null
  /\ Len(engine.data) = 4
  /\ engine.data[1].date = 4
  /\ engine.metric.acceleration # Null
  /\ LET h == ByDate(engine.data)
     IN engine.metric.acceleration #
          Minus(calculateGrowthRate(h[3], h[2]),
                calculateGrowthRate(h[2], h[1]))

\* the pairs of consecutive growth rates of h that strictly increase
IncreasingPairs(h) ==
  Cardinality({i \in 2..(Len(h) - 1) :
     Greater(calculateGrowthRate(h[i + 1], h[i]),
             calculateGrowthRate(h[i], h[i - 1]))})
\* C15: isExponentialGrowth is false for fewer than 3 points; for n >= 3
\* points it is true exactly when (increasing pairs) / (n - 2) > 0.6, the
\* denominator being at least 1; false for [100, 150, 225, 338], true for
\* [100, 120, 180, 400].
C15_Exponential ==
  /\ ~isExponentialGrowth(<<100, 150, 225, 338>>)
  /\ isExponentialGrowth(<<100, 120, 180, 400>>)
  /\ engine.metric # Null =>
       LET h == ByDate(engine.data)
           n == Len(h)
       IN /\ isExponentialGrowth(h) = engine.metric.isExponential
          /\ n < 3 => ~engine.metric.isExponential
          /\ n >= 3 =>
               /\ Len(growthRates(h)) - 1 = n - 2
               /\ n - 2 >= 1
               /\ engine.metric.isExponential
                    <=> (10 * IncreasingPairs(h) > 6 * (n - 2))
\* four points of which one of the two pairs increases: 50%, not exponential
C15_Witness ==
  /\ engine.metric # Null
  /\ Len(engine.data) = 4
  /\ IncreasingPairs(ByDate(engine.data)) = 1
  /\ ~engine.metric.isExponential

\* the number x is greater than the integer t
Exceeds(x, t) ==
  \/ x.k = "inf" /\ x.n > 0
  \/ x.k = "fin" /\ x.n > t * x.d
\* the label the priority order gives the metric m
Label(m) ==
  IF m.isExponential THEN "exponential"
  ELSE IF (IF m.acceleration = Null THEN FALSE
           ELSE Exceeds(m.acceleration, 10))
       THEN "accelerating"
  ELSE IF Exceeds(m.growthRate, 20) THEN "growing"
  ELSE IF Exceeds(m.growthRate, 0 - 10) THEN "stable"
  ELSE "declining"
\* C16: every metric the engine computes, the degenerate one included, carries
\* the one label of the priority order exponential, accelerating (acceleration
\* not null and > 10), growing (growth rate > 20), stable (> -10), declining.
C16_TrendPriority ==
  /\ engine.metric # Null => engine.metric.trend = Label(engine.metric)
  /\ \A i \in 1..Len(engine.list) :
       engine.list[i].trend = Label(engine.list[i])
\* a metric that is not exponential, accelerates by more than 10 and grows by
\* more than 20: accelerating wins over growing
C16_Witness ==
  /\ engine.metric # Null
  /\ ~engine.metric.isExponential
  /\ engine.metric.acceleration # Null
  /\ Greater(engine.metric.acceleration, Num(10))
  /\ Greater(engine.metric.growthRate, Num(20))
  /\ engine.metric.trend = "accelerating"

\* the points of data in the order of their dates, oldest first
Ascending(data) ==
  [i \in 1..Len(data) |->
     CHOOSE p \in {data[n] : n \in 1..Len(data)} : p.date = i]
\* the points of data in the reverse order of their dates
Reversed(data) ==
  [i \in 1..Len(data) |-> Ascending(data)[Len(data) + 1 - i]]
\* C17: calculateGrowthMetrics sorts its input by date first, so the points of
\* a history (distinct dates) give the same metrics in every arrival order:
\* whatever the order of the input, the metrics are those of the same points
\* taken oldest first, and those of the dashboard's newest-first fetch.
C17_OrderIndependent ==
  (engine.metric # Null /\ Len(engine.data) >= 2) =>
    /\ engine.metric =
         calculateGrowthMetrics(engine.metric.packageName,
                                Ascending(engine.data))
    /\ engine.metric =
         calculateGrowthMetrics(engine.metric.packageName,
                                Reversed(engine.data))
    /\ engine.metric.currentDownloads =
         Ascending(engine.data)[Len(engine.data)].downloads
    /\ engine.metric.previousDownloads =
         Ascending(engine.data)[Len(engine.data) - 1].downloads
\* three points with different downloads that arrived newest first: the
\* current value is the newest point's, the previous the one before
C17_Witness ==
  /\ engine.metric # Null
  /\ Len(engine.data) = 3
  /\ \A i \in 1..3 : engine.data[i].date = 4 - i
  /\ engine.data[1].downloads # engine.data[3].downloads
  /\ engine.data[1].downloads # engine.data[2].downloads
  /\ engine.metric.currentDownloads = engine.data[1].downloads
  /\ engine.metric.previousDownloads = engine.data[2].downloads

\* the position of the package of metric m in the list
Position(m) ==
  CHOOSE i \in 1..Len(engine.list) :
    engine.list[i].packageName = m.packageName
\* the result shows each metric of the list once
IsRearranged(result) ==
  /\ Len(result) = Len(engine.list)
  /\ \A i \in 1..Len(engine.list) :
       \E n \in 1..Len(result) : result[n] = engine.list[i]
\* C18: sorted by acceleration, the entries without one (null) stand after
\* all numeric ones in descending order and before them in ascending order,
\* the numeric ones are in order, and entries that compare equal keep the
\* order of the input.
C18_NullLowest ==
  (engine.view.op = "sortMetrics" /\ engine.view.sortBy = "acceleration") =>
    LET result == engine.view.result
        desc == engine.view.sortOrder = "desc"
    IN /\ IsRearranged(result)
       /\ \A i \in 1..Len(result) : \A j \in (i + 1)..Len(result) :
            LET a == result[i].acceleration
                b == result[j].acceleration
            IN /\ desc => ~(a = Null /\ b # Null)
               /\ ~desc => ~(a # Null /\ b = Null)
               /\ (a # Null /\ b # Null) =>
                    IF desc THEN ~Greater(b, a) ELSE ~Greater(a, b)
               /\ a = b => Position(result[i]) < Position(result[j])
\* a descending view of a list that began with a null entry and holds a
\* negative acceleration and two equal entries: the null entry is last
C18_Witness ==
  /\ engine.view.op = "sortMetrics"
  /\ engine.view.sortBy = "acceleration"
  /\ engine.view.sortOrder = "desc"
  /\ Len(engine.list) = 3
  /\ engine.list[1].acceleration = Null
  /\ engine.view.result[3] = engine.list[1]
  /\ engine.view.result[2].acceleration # Null
  /\ Greater(Num(0), engine.view.result[2].acceleration)

Min(a, b) == IF a < b THEN a ELSE b
\* C19: getTopGrowing(metrics, N) returns min(N, |metrics|) entries, the
\* exponential ones first, the growth rates of each group in non-increasing
\* order, and is the prefix of that length of sortByGrowth(metrics).
C19_TopGrowing ==
  engine.view.op = "getTopGrowing" =>
    LET result == engine.view.result
        all == sortByGrowth(engine.list)
    IN /\ Len(result) = Min(engine.view.limit, Len(engine.list))
       /\ result = SubSeq(all, 1, Len(result))
       /\ Len(all) = Len(engine.list)
       /\ \A i \in 1..Len(engine.list) :
            \E n \in 1..Len(all) : all[n] = engine.list[i]
       /\ \A i \in 1..Len(all) : \A j \in (i + 1)..Len(all) :
            /\ ~(~all[i].isExponential /\ all[j].isExponential)
            /\ all[i].isExponential = all[j].isExponential =>
                 ~Greater(all[j].growthRate, all[i].growthRate)
\* the top 2 of three packages: an exponential one with the smaller growth
\* rate stands before a faster one that is not exponential
C19_Witness ==
  /\ engine.view.op = "getTopGrowing"
  /\ engine.view.limit = 2
  /\ Len(engine.list) = 3
  /\ Len(engine.view.result) = 2
  /\ engine.view.result[1].isExponential
  /\ ~engine.view.result[2].isExponential
  /\ Greater(engine.view.result[2].growthRate,
             engine.view.result[1].growthRate)

\* the job on which each way to add a package runs, and its validation
AddPaths == {"addNew", "post", "add"}
Validated(j, name) ==
  IF j = "add" THEN isValidPackageName(name)
  ELSE npmServiceIsValidPackageName(name)
\* job j was handed a name that fails the validation of its path
Rejected(j) ==
  /\ job[j].list # <<>>
  /\ ~Validated(j, job[j].list[1])
\* a job with a rejected name has returned a failure and awaits nothing, and
\* no table holds a row of a name that fails the validation
C20_NothingForRejected ==
  /\ \A j \in AddPaths :
       Rejected(j) =>
         /\ job[j].pc = "done"
         /\ job[j].call = NoCall
         /\ job[j].reqs = <<>>
         /\ job[j].wrote = {}
         /\ job[j].out # Null
         /\ j = "post" => job[j].out.status = 400
         /\ j # "post" => ~job[j].out.success
  /\ \A r \in bpackages : npmServiceIsValidPackageName(r.name)
  /\ \A r \in BagToSet(bdownloads) :
       \E p \in bpackages : p.id = r.package_name
  /\ \A name \in packages : isValidPackageName(name)
  /\ \A r \in BagToSet(rows) : isValidPackageName(r.package_name)
\* the step that takes a rejected name leaves every table and every other
\* job as it was
C20_RejectStep ==
  \A j \in AddPaths :
    (Rejected(j)' /\ job'[j] # job[j]) =>
      /\ UNCHANGED <<rows, packages, bpackages, bdownloads>>
      /\ \A x \in Jobs \ {j} : job'[x] = job[x]
      /\ ~Active(j)
GrammarChars == LowerAlnum \cup {"-", ".", "~"}
\* s is a non-empty word over the grammar's characters
GrammarWord(s) ==
  /\ Len(s) >= 1
  /\ \A i \in 1..Len(s) : s[i] \in GrammarChars
\* an optional @scope/ prefix and a name, of at most 214 characters in all
RegistryName(name) ==
  LET s == Spelling(name)
  IN /\ Len(s) <= MaxNameLength
     /\ \/ GrammarWord(s)
        \/ /\ Len(s) >= 1
           /\ s[1] = "@"
           /\ \E k \in 2..Len(s) :
                /\ s[k] = "/"
                /\ GrammarWord(SubSeq(s, 2, k - 1))
                /\ GrammarWord(SubSeq(s, k + 1, Len(s)))
\* C21: a name that a path's validator accepted matches the registry grammar
\* and has at most 214 characters, and the backend's and the dashboard's
\* validators agree on every submitted name.
C21_OneGrammar ==
  \A j \in AddPaths :
    job[j].list # <<>> =>
      LET name == job[j].list[1]
      IN /\ Validated(j, name) => RegistryName(name)
         /\ isValidPackageName(name) <=> npmServiceIsValidPackageName(name)

\* the download points stored for package name
PointsOf(rs, name) == {r \in BagToSet(rs) : r.package_name = name}
\* C22: a package row is never hard-deleted while download points for it
\* exist: the step that deletes the row of a package finds no stored point
\* of that package, also when removePackage runs beside a backfill or a
\* daily update of the same package.
C22_NoDeleteWhilePoints ==
  [][\A name \in packages \ packages' : PointsOf(rows', name) = {}]_vars

\* the keys (package, date) that have a point in rs
KeysOf(rs) == {Key(r.package_name, r.date) : r \in BagToSet(rs)}
\* a step that removes points is the retention cleanup, and removes exactly
\* the points older than its cutoff
C23_Step ==
  /\ KeysOf(bdownloads) \subseteq KeysOf(bdownloads')
  /\ ~(KeysOf(rows) \subseteq KeysOf(rows')) =>
       /\ job' = job
       /\ \E days_to_keep \in KeepDays :
            /\ rows' = clean_old_download_data(rows, format(now), days_to_keep)
            /\ \A k \in KeysOf(rows) \ KeysOf(rows') :
                 k.date < format(now) - days_to_keep
\* C23: a stored download point is never deleted except by the retention
\* cleanup, which removes only points older than the age cutoff; removing a
\* package, a backfill and a daily update remove no point.
C23_OnlyCleanupDeletes == [][C23_Step]_vars

\* addNewPackage returns true at this step
AddReportsSuccess ==
  /\ job["addNew"].pc \notin {"idle", "done"}
  /\ job'["addNew"].pc = "done"
  /\ job'["addNew"].out.success
\* C26: an add that reports success leaves the package active, also when the
\* name had been removed from tracking before: the row the add stored or
\* found is active, so getPackageByName and getAllPackages return it.
C26_AddLeavesActive ==
  [][AddReportsSuccess =>
       IF job["addNew"].pkg = Null
       THEN getPackageByName(bpackages, job["addNew"].list[1]) # Null
       ELSE LET all == getAllPackages(bpackages \cup {job["addNew"].pkg})
            IN /\ job["addNew"].pkg.is_active
               /\ \E i \in 1..Len(all) : all[i] = job["addNew"].list[1]]_vars

\* the batch jobs that ask the provider for download counts
SerialJobs == {"backfill", "daily", "dashboard"}
\* the job awaits a download-count request, or the store write that follows
InCycle(r) == r.pc \in {"fetch", "save"}
\* one step of a batch job: after a download-count request the job can only
\* store the answer and then pause; a request is issued only after a pause or
\* as the first of its package; the job turns to its next package only from a
\* pause or a skip, never with a request or a write outstanding
C24_Step ==
  \A j \in SerialJobs :
    LET a == job[j]
        b == job'[j]
    IN /\ a.pc = "fetch" =>
            b.pc \in {"fetch", "save", "delay", "pkgdelay", "idle"}
       /\ a.pc = "save" => b.pc \in {"save", "delay", "pkgdelay", "idle"}
       /\ (b.pc = "fetch" /\ a.pc # "fetch") =>
            /\ a.pc \in {"delay", "saveinfo", "check"}
            /\ a.pc = "delay" => b.call = NoCall
       /\ (b.pc \in {"info", "saveinfo", "check"} /\ b.pc # a.pc) =>
            a.pc \in {"idle", "done", "pkgdelay", "delay", "info", "check"}
       /\ (b.k # a.k /\ b.pc # "idle" /\ a.pc \notin {"idle", "done"}) =>
            /\ ~InCycle(a)
            /\ a.pc \in {"pkgdelay", "delay", "check"}
            /\ b.k = a.k + 1
\* C24: within one batch job provider access is serialized: the job awaits
\* one call at a time, a package's fetch/store cycle is complete before the
\* next package begins, and a delay step lies between any two consecutive
\* download-count requests.
C24_Serialized == [][C24_Step]_vars
\* a backfill that stored a point of its first package, paused, and now
\* awaits the first download count of its second package
C24_Witness ==
  /\ job["backfill"].pc = "fetch"
  /\ job["backfill"].k = 2
  /\ job["backfill"].call = NoCall
  /\ \E key \in job["backfill"].wrote :
       key.package = job["backfill"].list[1]

\* the rows a step stores
Stored == BagToSet(rows') \ BagToSet(rows)
\* C25: every download point (p, d) that a writer stores holds the provider's
\* count for the 7-day bucket [d - 6 days, d]; no write puts a count taken
\* over another window under date d.
C25_WeeklyBucket ==
  [][\A r \in Stored :
       r.downloads = ProviderCount(r.package_name, r.date - 6, r.date)]_vars

\* the clients held by the calls in progress
Held == Cardinality({c \in PoolCallers : pool.at[c] # "idle"})
\* C27: every client acquired from the pool is released exactly once on every
\* path, a throwing query included: the clients checked out are those of the
\* calls in progress, so that after any PackageService operation,
\* testConnection or initializeDatabase the count is what it was before.
C27_ReleasedOnce == pool.out = Held

\* C28: at most one collectAllPackageData run is active at a time: a
\* POST /api/collect that arrives during a collection does not start a second
\* pass that overlaps the first.
C28_OnePass == Cardinality({j \in CollectJobs : Active(j)}) <= 1

\* the trends that stand for growth
GrowthTrends == {"exponential", "accelerating", "growing"}
\* C29: a metric with growthRate < 0 is never classified exponential or
\* accelerating, and every metric whose trend is exponential, accelerating or
\* growing has growthRate > 0.
C29_GrowthIsPositive ==
  engine.metric # Null =>
    /\ Greater(Num(0), engine.metric.growthRate) =>
         engine.metric.trend \notin {"exponential", "accelerating"}
    /\ engine.metric.trend \in GrowthTrends =>
         Greater(engine.metric.growthRate, Num(0))

\* C30: collectHistoricalData(name, days), days >= 1, issues exactly
\* ceil(days / 30) range requests, chunk i (from 0) running from
\* min((i + 1) * 30, days) days ago to i * 30 days ago: start <= end, never
\* more than 30 days apart, each chunk ending where the one before began.
C30_Chunks ==
  LET r == job["historical"]
  IN /\ \A n \in 1..Len(r.reqs) :
          LET q == r.reqs[n]
          IN /\ q.start = q.today - min(n * chunkSize, r.days)
             /\ q.end = q.today - (n - 1) * chunkSize
             /\ q.start <= q.end
             /\ q.end - q.start <= chunkSize
             /\ n > 1 => q.end = r.reqs[n - 1].start
     /\ r.pc = "weekly" => Len(r.reqs) = chunks(r.days)

============================================================================
